---- MODULE Spec2Model ----
(***************************************************************************)
(* Ingredient-line normalisation of module/scraper_recipe.py.              *)
(*                                                                         *)
(* A line of text is a sequence of tokens (the whitespace-separated words  *)
(* of the line; a parenthesised group is one token, a comma is a token of  *)
(* its own).  The regular expressions of the source are modelled by what   *)
(* they match on these tokens.  Floating-point values are exact rationals  *)
(* [n, d]; d = 0 stands for Python's None and d = -1 for a raised          *)
(* exception.  quantity_g, rounded to two decimals, is a number of         *)
(* hundredths of a gram.                                                   *)
(***************************************************************************)
EXTENDS Integers, Sequences, FiniteSets, TLC

(***************************************************************************)
(* Numbers                                                                 *)
(***************************************************************************)
RECURSIVE GCD(_, _)
GCD(a, b) == IF b = 0 THEN a ELSE GCD(b, a % b)

Abs(x) == IF x < 0 THEN -x ELSE x

\* the rational n/d in lowest terms (d > 0)
R(n, d) == LET g == GCD(Abs(n), d) IN [n |-> n \div g, d |-> d \div g]

NoneR == [n |-> 0, d |-> 0]
RaiseR == [n |-> 0, d |-> -1]
IsNone(x) == x.d = 0
IsRaise(x) == x.d = -1
IsNum(x) == x.d > 0

Zero == R(0, 1)
One == R(1, 1)

\* a * b, cancelling across before multiplying
RMul(a, b) ==
    LET g1 == GCD(Abs(a.n), b.d)
        g2 == GCD(Abs(b.n), a.d)
    IN  R((a.n \div g1) * (b.n \div g2), (a.d \div g2) * (b.d \div g1))

RAdd(a, b) == R(a.n * b.d + b.n * a.d, a.d * b.d)

\* Python's `float + x`: a TypeError when x is None
PyAdd(a, b) == IF IsNum(a) /\ IsNum(b) THEN RAdd(a, b) ELSE RaiseR

\* Python's `x or 0.0`
Or0(x) == IF IsNone(x) \/ (IsNum(x) /\ x.n = 0) THEN Zero ELSE x

\* round(x, 2) in hundredths: nearest, ties to even
Round2(x) ==
    LET w == x.n \div x.d
        r == x.n % x.d
        g == GCD(100, x.d)
        num == r * (100 \div g)
        den == x.d \div g
        c == num \div den
        m == num % den
        up == (2 * m > den) \/ (2 * m = den /\ c % 2 = 1)
    IN  w * 100 + c + (IF up THEN 1 ELSE 0)


(***************************************************************************)
(* Tokens.  Words are lower-case but for "Cups"; the vulgar-fraction       *)
(* glyphs are named by their code points (u00BD is one half); " " is the   *)
(* extra blank a substitution leaves behind.                               *)
(***************************************************************************)
None == "none"
GAP == " "
COMMA == ","

\* str.lower
Lower(t) == CASE t = "Cups" -> "cups" [] t = "Eggs" -> "eggs" [] OTHER -> t

LowerSeq(s) == [i \in 1..Len(s) |-> Lower(s[i])]

\* _VULGAR
VulgarGlyphs == {"u00BC", "u00BD", "u00BE", "u2153", "u2154",
                 "u215B", "u215C", "u215D", "u215E"}

_VULGAR(t) ==
    CASE t = "u00BC" -> R(1, 4) [] t = "u00BD" -> R(1, 2) [] t = "u00BE" -> R(3, 4)
      [] t = "u2153" -> R(1, 3) [] t = "u2154" -> R(2, 3)
      [] t = "u215B" -> R(1, 8) [] t = "u215C" -> R(3, 8)
      [] t = "u215D" -> R(5, 8) [] t = "u215E" -> R(7, 8)

\* tokens matching \d+(?:\.\d+)? as a whole, and float() of them
DecTokens == {"0", "1", "2", "3", "4", "8", "16", "0.001", "1.5"}

DecVal(t) ==
    CASE t = "0" -> R(0, 1) [] t = "1" -> R(1, 1) [] t = "2" -> R(2, 1)
      [] t = "3" -> R(3, 1) [] t = "4" -> R(4, 1) [] t = "8" -> R(8, 1)
      [] t = "16" -> R(16, 1)
      [] t = "0.001" -> R(1, 1000) [] t = "1.5" -> R(3, 2)

\* tokens matching \d+\s*/\s*\d+ as a whole: numerator, denominator, and the
\* text left when only the leading \d+ is consumed
FracTokens == {"1/2", "1/0", "3/4"}
FracNum(t) == CASE t = "1/2" -> 1 [] t = "1/0" -> 1 [] t = "3/4" -> 3
FracDen(t) == CASE t = "1/2" -> 2 [] t = "1/0" -> 0 [] t = "3/4" -> 4
FracRest(t) == CASE t = "1/2" -> "/2" [] t = "1/0" -> "/0" [] t = "3/4" -> "/4"

\* a number, a hyphen and a unit written as one word
HyphTokens == {"8-ounce", "0-ounce"}
HyphAmt(t) == CASE t = "8-ounce" -> R(8, 1) [] t = "0-ounce" -> R(0, 1)
HyphUnit(t) == CASE t = "8-ounce" -> "ounce" [] t = "0-ounce" -> "ounce"
HyphRest(t) == CASE t = "8-ounce" -> "-ounce" [] t = "0-ounce" -> "-ounce"

\* parenthesised groups: the numeral and the word inside, "" when the group
\* is not of the shape ( numeral word )
ParenTokens == {"(8 pound)", "(8 ounce)", "(0 ounce)", "(2 inch)", "(2 cm)",
                "(1/0 ounce)", "(u00BD pound)", "(1 cup)", "(optional)"}
ParenNum(t) ==
    CASE t = "(8 pound)" -> "8" [] t = "(8 ounce)" -> "8" [] t = "(0 ounce)" -> "0"
      [] t = "(2 inch)" -> "2" [] t = "(2 cm)" -> "2"
      [] t = "(1/0 ounce)" -> "1/0" [] t = "(u00BD pound)" -> "u00BD"
      [] t = "(1 cup)" -> "1" [] OTHER -> ""
ParenWord(t) ==
    CASE t = "(8 pound)" -> "pound" [] t = "(8 ounce)" -> "ounce"
      [] t = "(0 ounce)" -> "ounce"
      [] t = "(2 inch)" -> "inch" [] t = "(2 cm)" -> "cm"
      [] t = "(1/0 ounce)" -> "ounce" [] t = "(u00BD pound)" -> "pound"
      [] t = "(1 cup)" -> "cup" [] OTHER -> ""

\* UNIT_SYNONYMS.get
UNIT_SYNONYMS(w) ==
    CASE w \in {"pound", "pounds", "lb", "lbs"} -> "lb"
      [] w \in {"ounce", "ounces", "oz"} -> "oz"
      [] w \in {"gram", "grams", "g"} -> "g"
      [] w \in {"kilogram", "kilograms", "kg"} -> "kg"
      [] w \in {"cup", "cups"} -> "cup"
      [] w \in {"tablespoon", "tablespoons", "tbsp"} -> "tbsp"
      [] w \in {"teaspoon", "teaspoons", "tsp"} -> "tsp"
      [] w \in {"liter", "liters", "l"} -> "l"
      [] w \in {"milliliter", "milliliters", "ml"} -> "ml"
      [] w \in {"each", "ea", "count", "piece", "pieces", "clove", "cloves",
                "leaf", "leaves", "sprig", "sprigs", "slice", "slices"} -> "each"
      [] OTHER -> None

\* the table with the ounce rounded to 28.35 g
MassPerUnitRoundedOunce(u) ==
    CASE u = "lb" -> R(45359237, 100000)
      [] u = "oz" -> R(2835, 100)
      [] u = "kg" -> R(1000, 1)
      [] u = "g" -> R(1, 1)
      [] u = "cup" -> R(240, 1) [] u = "tbsp" -> R(15, 1) [] u = "tsp" -> R(5, 1)
      [] u = "l" -> R(1000, 1) [] u = "ml" -> R(1, 1)
      [] OTHER -> NoneR

\* MASS_PER_UNIT.get
MASS_PER_UNIT(u) ==
    CASE u = "lb" -> R(45359237, 100000)
      [] u = "oz" -> R(45359237, 1600000)
      [] u = "kg" -> R(1000, 1)
      [] u = "g" -> R(1, 1)
      [] u = "cup" -> R(240, 1) [] u = "tbsp" -> R(15, 1) [] u = "tsp" -> R(5, 1)
      [] u = "l" -> R(1000, 1) [] u = "ml" -> R(1, 1)
      [] OTHER -> NoneR

GINGER_G_PER_INCH == R(11, 2)

Min(S) == CHOOSE x \in S : \A y \in S : x <= y

\* _vulgar_to_float without the handler of ZeroDivisionError
VulgarToFloatUncaught(t) ==
    IF t \in VulgarGlyphs THEN _VULGAR(t)
    ELSE IF t \in FracTokens
         THEN IF FracDen(t) = 0 THEN RaiseR ELSE R(FracNum(t), FracDen(t))
    ELSE IF t \in DecTokens THEN DecVal(t)
    ELSE NoneR

\* _vulgar_to_float
_vulgar_to_float(t) ==
    IF t \in VulgarGlyphs THEN _VULGAR(t)
    ELSE IF t \in FracTokens
         THEN IF FracDen(t) = 0 THEN NoneR ELSE R(FracNum(t), FracDen(t))
    ELSE IF t \in DecTokens THEN DecVal(t)
    ELSE NoneR

(***************************************************************************)
(* Pre-scan of the whole line for a weight                                 *)
(***************************************************************************)
\* the alternative of _WEIGHT_UNITS a word is, "" if none
WeightWord(w) ==
    IF w \in {"pound", "pounds", "lb", "lbs", "oz", "ounce", "ounces",
              "kg", "g", "floz"} THEN w ELSE ""

\* the alternative of _WEIGHT_UNITS a word begins with (_PACK_RE does not
\* ask for a word boundary after the unit)
WeightPrefix(w) ==
    IF WeightWord(w) # "" THEN WeightWord(w)
    ELSE IF w \in {"grams", "gram", "ginger", "garnish"} THEN "g"
    ELSE ""

\* _unit_to_g_simple
_unit_to_g_simple(amount, u) ==
    IF u \in {"lb", "lbs", "pound", "pounds"} THEN RMul(amount, R(45359237, 100000))
    ELSE IF u \in {"oz", "ounce", "ounces"} THEN RMul(amount, R(45359237, 1600000))
    ELSE IF u = "kg" THEN RMul(amount, R(1000, 1))
    ELSE IF u = "g" THEN amount
    ELSE IF u = "floz" THEN RMul(amount, R(295735, 10000))
    ELSE Zero

\* the number a token ends with; the number a token begins with
TrailNum(t) ==
    IF t \in DecTokens THEN DecVal(t)
    ELSE IF t \in FracTokens THEN R(FracDen(t), 1)
    ELSE NoneR

LeadNum(t) ==
    IF t \in DecTokens THEN DecVal(t)
    ELSE IF t \in FracTokens THEN R(FracNum(t), 1)
    ELSE IF t \in HyphTokens THEN HyphAmt(t)
    ELSE NoneR

\* re.match(r"^\s*(\d+(?:\.\d+)?)\b", s): the factor applied to a weight
LeadCount(s) ==
    IF Len(s) > 0 /\ IsNum(LeadNum(s[1])) THEN LeadNum(s[1]) ELSE One

PackAt(s, i) ==
    /\ i + 3 <= Len(s)
    /\ IsNum(TrailNum(s[i]))
    /\ s[i + 1] \in {"x", "u00D7"}
    /\ s[i + 2] \in DecTokens
    /\ WeightPrefix(s[i + 3]) # ""

ParenWeightAt(s, i) ==
    /\ s[i] \in ParenTokens
    /\ ParenNum(s[i]) \in DecTokens
    /\ WeightWord(ParenWord(s[i])) # ""

HyphenAt(s, i) ==
    \/ s[i] \in HyphTokens
    \/ /\ i + 2 <= Len(s)
       /\ IsNum(TrailNum(s[i]))
       /\ s[i + 1] = "-"
       /\ WeightWord(s[i + 2]) # ""

PackGrams(s) ==
    LET I == {i \in 1..Len(s) : PackAt(s, i)} IN
    IF I = {} THEN Zero
    ELSE LET i == Min(I) IN
         RMul(_unit_to_g_simple(DecVal(s[i + 2]), WeightPrefix(s[i + 3])), TrailNum(s[i]))

ParenGrams(s) ==
    LET I == {i \in 1..Len(s) : ParenWeightAt(s, i)} IN
    IF I = {} THEN Zero
    ELSE LET i == Min(I) IN
         RMul(_unit_to_g_simple(DecVal(ParenNum(s[i])), ParenWord(s[i])), LeadCount(s))

HyphenGrams(s) ==
    LET I == {i \in 1..Len(s) : HyphenAt(s, i)} IN
    IF I = {} THEN Zero
    ELSE LET i == Min(I)
             g == IF s[i] \in HyphTokens
                  THEN _unit_to_g_simple(HyphAmt(s[i]), HyphUnit(s[i]))
                  ELSE _unit_to_g_simple(TrailNum(s[i]), s[i + 2])
         IN  RMul(g, LeadCount(s))

\* _preextract_weight_grams
_preextract_weight_grams(line) ==
    LET s == LowerSeq(line) IN
    IF PackGrams(s).n > 0 THEN PackGrams(s)
    ELSE IF ParenGrams(s).n > 0 THEN ParenGrams(s)
    ELSE IF HyphenGrams(s).n > 0 THEN HyphenGrams(s)
    ELSE Zero


(***************************************************************************)
(* Quantity parser                                                         *)
(***************************************************************************)
RECURSIVE SkipGaps(_)
\* str.lstrip
SkipGaps(s) == IF s # <<>> /\ s[1] = GAP THEN SkipGaps(Tail(s)) ELSE s

RECURSIVE DropTrailingGaps(_)
DropTrailingGaps(s) ==
    IF s # <<>> /\ s[Len(s)] = GAP THEN DropTrailingGaps(SubSeq(s, 1, Len(s) - 1)) ELSE s

\* str.strip
Strip(s) == DropTrailingGaps(SkipGaps(s))

\* str.split
Split(s) == SelectSeq(s, LAMBDA t : t # GAP)

From(s, i) == SubSeq(s, i, Len(s))

DashTokens == {"-", "u2013", "u2014", "u2022"}

ParenUnits == {"ounce", "ounces", "oz", "pound", "pounds", "lb", "lbs", "g", "kg",
               "cup", "cups", "tbsp", "tablespoon", "tsp", "teaspoon",
               "inch", "in", "cm"}

\* the parenthesised package spec both regular expressions of _parse_quantity look for
IsParenSpec(t) ==
    /\ t \in ParenTokens
    /\ ParenNum(t) \in DecTokens \cup FracTokens \cup VulgarGlyphs
    /\ Lower(ParenWord(t)) \in ParenUnits

\* the text after the first comma is cut off
BeforeComma(s) ==
    LET I == {i \in 1..Len(s) : s[i] = COMMA} IN
    IF I = {} THEN s ELSE SubSeq(s, 1, Min(I) - 1)

\* step 1 of _parse_quantity: lead_paren, else any_paren
ParseParen(s) ==
    LET I == {i \in 1..Len(s) : IsParenSpec(s[i])} IN
    IF I = {} THEN [s |-> s, pqty |-> NoneR, punit |-> None]
    ELSE LET i == Min(I)
             lead == \A j \in 1..(i - 1) : s[j] \in DashTokens
         IN  [s |-> IF lead THEN From(s, i + 1)
                    ELSE Strip(SubSeq(s, 1, i - 1) \o <<GAP>> \o From(s, i + 1)),
              pqty |-> _vulgar_to_float(ParenNum(s[i])),
              punit |-> Lower(ParenWord(s[i]))]

\* step 2 of _parse_quantity: m_mix_numeric, m_mix_vulgar, m_single
ParseNumber(s) ==
    IF s = <<>> THEN [qty |-> NoneR, s |-> s]
    ELSE
    LET first == s[1]
        after == SkipGaps(Tail(s))
    IN  IF first \in DecTokens /\ Tail(s) # <<>> /\ after # <<>> /\ after[1] \in FracTokens
        THEN [qty |-> PyAdd(DecVal(first), Or0(_vulgar_to_float(after[1]))),
              s |-> SkipGaps(Tail(after))]
        ELSE IF first \in DecTokens /\ after # <<>> /\ after[1] \in VulgarGlyphs
        THEN [qty |-> PyAdd(DecVal(first), Or0(_vulgar_to_float(after[1]))),
              s |-> SkipGaps(Tail(after))]
        ELSE IF first \in VulgarGlyphs \cup DecTokens
        THEN [qty |-> _vulgar_to_float(first), s |-> after]
        ELSE IF first \in FracTokens
        THEN [qty |-> R(FracNum(first), 1), s |-> <<FracRest(first)>> \o Tail(s)]
        ELSE IF first \in HyphTokens
        THEN [qty |-> HyphAmt(first), s |-> <<HyphRest(first)>> \o Tail(s)]
        ELSE [qty |-> NoneR, s |-> s]

\* step 3 of _parse_quantity: the unit is the first word or, failing that, the second
ParseUnit(s) ==
    LET parts == Split(s)
        u0 == IF parts # <<>> THEN UNIT_SYNONYMS(Lower(parts[1])) ELSE None
        u1 == IF Len(parts) >= 2 THEN UNIT_SYNONYMS(Lower(parts[2])) ELSE None
    IN  IF parts = <<>> THEN [unit |-> None, s |-> s]
        ELSE IF u0 = None /\ Len(parts) >= 2
             THEN IF u1 # None THEN [unit |-> u1, s |-> From(parts, 3)]
                  ELSE [unit |-> None, s |-> s]
        ELSE IF u0 # None THEN [unit |-> u0, s |-> From(parts, 2)]
        ELSE [unit |-> None, s |-> s]

\* _parse_quantity; exc: the call raised
_parse_quantity(text) ==
    LET p == ParseParen(BeforeComma(text))
        q == ParseNumber(p.s)
        u == ParseUnit(q.s)
    IN  [qty |-> q.qty, unit |-> u.unit, rem |-> Strip(u.s),
         pqty |-> p.pqty, punit |-> p.punit,
         exc |-> IsRaise(p.pqty) \/ IsRaise(q.qty)]

(***************************************************************************)
(* Name canonicaliser                                                      *)
(***************************************************************************)
OPTIONAL_PATTERNS ==
    << [phrase |-> <<"optional">>, key |-> "optional"],
       [phrase |-> <<"to", "taste">>, key |-> "to_taste"],
       [phrase |-> <<"as", "needed">>, key |-> "to_taste"],
       [phrase |-> <<"as", "required">>, key |-> "to_taste"],
       [phrase |-> <<"for", "garnish">>, key |-> "approx"],
       [phrase |-> <<"for", "serving">>, key |-> "approx"],
       [phrase |-> <<"for", "sprinkling">>, key |-> "approx"],
       [phrase |-> <<"for", "frying">>, key |-> "approx"],
       [phrase |-> <<"for", "brushing">>, key |-> "approx"] >>

PREP_WORDS ==
    {"chopped", "diced", "minced", "sliced", "crushed", "ground", "grated", "shredded",
     "beaten", "peeled", "seeded", "deveined", "rinsed", "drained", "softened", "melted",
     "cubed", "halved", "julienned", "thinly", "thickly", "coarsely", "finely"}

SizeWords == {"large", "small", "medium", "fresh", "prepared", "unsalted", "salted"}

SYNONYM_CANONICAL(n2) ==
    CASE n2 \in {<<"scallions">>, <<"scallion">>, <<"spring", "onions">>,
                 <<"spring", "onion">>, <<"green", "onions">>} -> <<"green", "onion">>
      [] n2 \in {<<"extra-virgin", "olive", "oil">>,
                 <<"extra", "virgin", "olive", "oil">>} -> <<"olive", "oil">>
      [] OTHER -> n2

NoFlags == [optional |-> FALSE, to_taste |-> FALSE, approx |-> FALSE, skip_for_kcal |-> FALSE]

RECURSIVE Replace(_, _)
\* n.replace(phrase, " ")
Replace(n, p) ==
    IF Len(n) < Len(p) THEN n
    ELSE IF SubSeq(n, 1, Len(p)) = p THEN <<GAP>> \o Replace(From(n, Len(p) + 1), p)
    ELSE <<n[1]>> \o Replace(Tail(n), p)

\* the loop body without the skip_for_kcal assignment
SetFlagOnly(flags, key) == [flags EXCEPT ![key] = TRUE]

\* the body of the loop over OPTIONAL_PATTERNS
SetFlag(flags, key) ==
    LET f == [flags EXCEPT ![key] = TRUE] IN
    IF key \in {"optional", "to_taste"} THEN [f EXCEPT !.skip_for_kcal = TRUE] ELSE f

RECURSIVE ApplyPatterns(_, _, _)
ApplyPatterns(n, flags, k) ==
    IF k > Len(OPTIONAL_PATTERNS) THEN [n |-> n, flags |-> flags]
    ELSE LET p == OPTIONAL_PATTERNS[k] IN
         IF Replace(n, p.phrase) # n
         THEN ApplyPatterns(Replace(n, p.phrase), SetFlag(flags, p.key), k + 1)
         ELSE ApplyPatterns(n, flags, k + 1)

\* no size adjective is removed
KeepSizes(w) == w

RECURSIVE StripSizes(_)
\* re.sub of the size adjectives, on words
StripSizes(w) ==
    IF w = <<>> THEN w
    ELSE IF w[1] = "extra" /\ Len(w) >= 2 /\ w[2] = "large" THEN StripSizes(From(w, 3))
    ELSE IF w[1] \in SizeWords THEN StripSizes(Tail(w))
    ELSE <<w[1]>> \o StripSizes(Tail(w))

\* _canonicalize_name
_canonicalize_name(name) ==
    LET n0 == Strip(LowerSeq(name))
        n1 == [i \in 1..Len(n0) |-> IF n0[i] \in ParenTokens THEN GAP ELSE n0[i]]
        a == ApplyPatterns(n1, NoFlags, 1)
        n3 == StripSizes(Split(a.n))
        tokens == SelectSeq(n3, LAMBDA t : t \notin {"piece", "pieces"})
        preps == SelectSeq(tokens, LAMBDA t : t \in PREP_WORDS)
        n2 == SelectSeq(tokens, LAMBDA t : t \notin PREP_WORDS)
    IN  [canonical |-> SYNONYM_CANONICAL(n2), cleaned |-> n2, flags |-> a.flags, prep |-> preps]


(***************************************************************************)
(* Unit-to-grams converter                                                 *)
(***************************************************************************)
Adjacent(n, a, b) == \E i \in 1..(Len(n) - 1) : n[i] = a /\ n[i + 1] = b

Has(n, w) == \E i \in 1..Len(n) : n[i] = w

RiceRule(n) ==
    \E i \in 1..Len(n) :
        /\ n[i] = "rice"
        /\ \/ i > 1 /\ n[i - 1] \in {"glutinous", "sweet", "sticky"}
           \/ ~(i < Len(n) /\ n[i + 1] = "vinegar")

\* a rule list with the generic sugar rule before the brown sugar rule
DensityRulesSugarFirst(n) ==
    IF RiceRule(n) THEN 185
    ELSE IF Has(n, "oil") THEN 218
    ELSE IF Has(n, "broth") \/ Has(n, "stock") THEN 240
    ELSE IF Has(n, "sugar") THEN 200
    ELSE IF Adjacent(n, "brown", "sugar") THEN 220
    ELSE 0

\* the grams of one cup in the first rule of DENSITY_RULES that matches, 0 if none does
DENSITY_RULES(n) ==
    IF RiceRule(n) THEN 185
    ELSE IF Has(n, "oil") THEN 218
    ELSE IF Has(n, "broth") \/ Has(n, "stock") THEN 240
    ELSE IF Adjacent(n, "brown", "sugar") THEN 220
    ELSE IF Has(n, "sugar") THEN 200
    ELSE 0

\* _density_for
_density_for(name, unit) ==
    LET cup == DENSITY_RULES(name) IN
    IF cup = 0 THEN NoneR
    ELSE IF unit = "cup" THEN R(cup, 1)
    ELSE IF unit = "tbsp" THEN R(cup, 16)
    ELSE IF unit = "tsp" THEN R(cup, 48)
    ELSE NoneR

\* _inch_to_g_for_item
_inch_to_g_for_item(name, inches) ==
    IF \E i \in 1..Len(name) : name[i] \in {"ginger", "gingerroot"}
    THEN RMul(inches, GINGER_G_PER_INCH)
    ELSE NoneR

\* 0.3937007874, cut to seven decimals to keep the rationals in 32 bits
CM_TO_INCH == R(3937007, 10000000)

\* _convert_to_grams
_convert_to_grams(qty, unit, name, pqty, punit) ==
    LET inches == RMul(pqty, IF punit = "cm" THEN CM_TO_INCH ELSE One)
        per == IF ~IsNone(pqty) /\ punit \in {"inch", "in", "cm"}
               THEN _inch_to_g_for_item(name, inches) ELSE NoneR
        dens == _density_for(name, unit)
    IN  IF unit = "each" THEN NoneR
        ELSE IF ~IsNone(per) THEN RMul(IF IsNone(qty) THEN One ELSE qty, per)
        ELSE IF ~IsNone(qty) /\ unit \in {"lb", "oz", "kg", "g"}
             THEN RMul(qty, MASS_PER_UNIT(unit))
        ELSE IF ~IsNone(qty) /\ unit \in {"cup", "tbsp", "tsp", "l", "ml"}
             THEN RMul(qty, IF IsNone(dens) THEN MASS_PER_UNIT(unit) ELSE dens)
        ELSE NoneR


(***************************************************************************)
(* Line normaliser                                                         *)
(***************************************************************************)
WHY_EACH == "unit=each (by design not converted to grams)"
WHY_NO_RULE == "no conversion rule matched (qty/unit missing or unsupported)"
WHY_COMPUTED_ZERO == "grams computed as 0"

\* the Ingredient record; absent meta keys are "" or NoneR
Ingredient(name, canonical, cents, flags, prep, meta) ==
    [name |-> name, canonical_name |-> canonical, quantity_g |-> cents,
     optional |-> flags.optional, to_taste |-> flags.to_taste, approx |-> flags.approx,
     skip_for_kcal |-> flags.skip_for_kcal, prep |-> prep, meta |-> meta]

NoIngredient ==
    Ingredient(<<>>, <<>>, 0, NoFlags, <<>>,
               [alias_raw |-> <<>>, kept_before_comma |-> <<>>, quantity_parsed |-> NoneR,
                unit_parsed |-> "", paren_quantity |-> NoneR, paren_unit |-> "",
                name_parsed |-> <<>>, prep |-> <<>>, unit_canonical |-> "",
                each_count |-> NoneR, display_qty |-> [amount |-> Zero, style |-> ""],
                why_zero |-> ""])

\* the grams chosen before the each/grams decision: pre-scan, package spec, converter
GramsFor(pre_g, pq, name_clean) ==
    LET base == IF ~IsNone(pq.pqty) /\ UNIT_SYNONYMS(pq.punit) # None
                THEN MASS_PER_UNIT(UNIT_SYNONYMS(pq.punit)) ELSE NoneR
    IN  IF pre_g.n > 0 THEN pre_g
        ELSE IF ~IsNone(base) /\ base.n # 0
             THEN RMul(RMul(IF IsNone(pq.qty) THEN One ELSE pq.qty, pq.pqty), base)
        ELSE _convert_to_grams(pq.qty, pq.unit, name_clean, pq.pqty, pq.punit)

\* an each test that gives way to a weight already found
IsEachBranchUnlessWeighed(unit, qty, grams) ==
    IsNone(grams) /\ ((unit = "each") \/ (~IsNone(qty) /\ unit = None))

\* an each test that forgets the bare quantity
IsEachBranchUnitOnly(unit, qty, grams) == unit = "each"

\* the test of the each branch
IsEachBranch(unit, qty, grams) ==
    (unit = "each") \/ (IsNone(grams) /\ ~IsNone(qty) /\ unit = None)

\* meta["why_zero"] of a record in grams, "" when the key is not set
WhyZero(grams) ==
    IF IsNone(grams) THEN WHY_NO_RULE
    ELSE IF grams.n = 0 THEN WHY_COMPUTED_ZERO
    ELSE ""

\* only the first of the two early returns
IsDiscardedNoNameCheck(before_comma, name_clean) == before_comma = <<>>

\* the two places where the line is dropped
IsDiscarded(before_comma, name_clean) == before_comma = <<>> \/ name_clean = <<>>

\* an each branch that keeps the grams it was handed
EachRecordKeepingGrams(c, common, qty, grams) ==
    LET piece_count == IF IsNone(qty) THEN One ELSE qty IN
    Ingredient(c.cleaned, c.canonical, IF IsNone(grams) THEN 0 ELSE Round2(grams),
               c.flags, c.prep,
               common @@ [unit_canonical |-> "each", each_count |-> piece_count,
                          display_qty |-> [amount |-> piece_count, style |-> "each"],
                          why_zero |-> WHY_EACH])

\* the record of the each branch
EachRecord(c, common, qty, grams) ==
    LET piece_count == IF IsNone(qty) THEN One ELSE qty IN
    Ingredient(c.cleaned, c.canonical, 0, c.flags, c.prep,
               common @@ [unit_canonical |-> "each", each_count |-> piece_count,
                          display_qty |-> [amount |-> piece_count, style |-> "each"],
                          why_zero |-> WHY_EACH])

\* the record in grams
GramRecord(c, common, grams) ==
    LET out_qty_g == IF IsNone(grams) THEN Zero ELSE grams IN
    Ingredient(c.cleaned, c.canonical, Round2(out_qty_g), c.flags, c.prep,
               common @@ [unit_canonical |-> "", each_count |-> NoneR,
                          display_qty |-> [amount |-> R(Round2(out_qty_g), 100),
                                          style |-> IF out_qty_g.n > 0 THEN ".2f g" ELSE "0 g"],
                          why_zero |-> WhyZero(grams)])

\* the meta keys both branches write
CommonMeta(raw, before_comma, pq, c) ==
    [alias_raw |-> raw, kept_before_comma |-> before_comma,
     quantity_parsed |-> pq.qty,
     unit_parsed |-> IF pq.unit = None THEN "" ELSE pq.unit,
     paren_quantity |-> pq.pqty,
     paren_unit |-> IF pq.punit = None THEN "" ELSE pq.punit,
     name_parsed |-> c.cleaned, prep |-> c.prep]

\* the end of the normaliser: the discard, the each branch or the record in grams
Decide(before_comma, pq, c, common, grams) ==
    IF before_comma # <<>> /\ pq.exc THEN [ret |-> "raise", ing |-> NoIngredient]
    ELSE IF IsDiscarded(before_comma, c.cleaned) THEN [ret |-> "none", ing |-> NoIngredient]
    ELSE IF IsEachBranch(pq.unit, pq.qty, grams)
         THEN [ret |-> "record", ing |-> EachRecord(c, common, pq.qty, grams)]
    ELSE [ret |-> "record", ing |-> GramRecord(c, common, grams)]

\* the normaliser once the name is canonicalised: the grams, then the decision
Resolve(raw, before_comma, pre_g, pq, c) ==
    Decide(before_comma, pq, c, CommonMeta(raw, before_comma, pq, c),
           GramsFor(pre_g, pq, c.cleaned))

\* the normaliser once the quantity is parsed: the pre-scan and the name
Parsed(raw, before_comma, pq) ==
    Resolve(raw, before_comma, _preextract_weight_grams(before_comma), pq,
            _canonicalize_name(pq.rem))

\* the normaliser on the text kept before the first comma
KeptBeforeComma(raw, before_comma) ==
    Parsed(raw, before_comma, _parse_quantity(before_comma))

\* _normalize_ingredient_line: what the call does ("none", "record", "raise")
\* and the record it returns
_normalize_ingredient_line(raw) == KeptBeforeComma(raw, BeforeComma(raw))

(***************************************************************************)
(* The inputs: a line is a leading numeral, a package spec, up to MaxWords *)
(* words and a tail, each of them possibly absent.                         *)
(***************************************************************************)
MaxWords == 2

Leads ==
    { <<>>, <<"0">>, <<"1">>, <<"3">>, <<"0.001">>, <<"1.5">>, <<"u00BD">>, <<"1/2">>,
      <<"1", "1/2">>, <<"1", "u00BD">>, <<"2", "1/0">>,
      <<"2", "x", "16", "oz">>, <<"8-ounce">>, <<"-">> }

Specs ==
    { <<>>, <<"(8 pound)">>, <<"(8 ounce)">>, <<"(2 inch)">>, <<"(1/0 ounce)">>,
      <<"(u00BD pound)">>, <<"(1 cup)">> }

Words == {"g", "Cups", "pieces", "large", "eggs", "salt", "ginger", "chicken"}

Tails == { <<>>, <<",", "beaten">>, <<"to", "taste">> }

SeqsUpTo(S, k) == UNION {[1..m -> S] : m \in 0..k}

Lines ==
    {a \o b \o c \o d : a \in Leads, b \in Specs, c \in SeqsUpTo(Words, MaxWords), d \in Tails}

\* the arguments of a direct call of _convert_to_grams
ConvQtys == {NoneR, R(0, 1), R(1, 2), R(3, 2), R(2, 1), R(3, 1)}
ConvUnits == {None, "each", "lb", "oz", "kg", "g", "cup", "tbsp", "tsp", "l", "ml"}
ConvNames ==
    { <<"salt">>, <<"ginger">>, <<"sugar">>, <<"brown", "sugar">>, <<"olive", "oil">>,
      <<"rice", "vinegar">>, <<"chicken", "broth">>, <<"brown", "sugar", "broth">> }
ConvSpecs ==
    { [pqty |-> NoneR, punit |-> None], [pqty |-> R(2, 1), punit |-> "inch"],
      [pqty |-> R(2, 1), punit |-> "cm"], [pqty |-> R(8, 1), punit |-> "ounce"],
      [pqty |-> NoneR, punit |-> "inch"] }

NoArgs == [qty |-> NoneR, unit |-> None, name |-> <<>>, pqty |-> NoneR, punit |-> None]

\* the names of a direct call of _canonicalize_name
CanonWords == {"salt", "to", "taste", "optional", "for", "garnish", "fresh", "beaten"}

(***************************************************************************)
(* The state: the last call and its result                                 *)
(***************************************************************************)
VARIABLES pc, line, ret, ing, cargs, cgrams, cname, cres

\* the calls made so far on the lines of one page, and the module's tables
VARIABLES calls, tables

repeatVars == <<calls, tables>>

\* the caches of main.py, the collaborator calls counted per key, the first
\* value each wrapper returned per key, the last wrapper call and the last
\* recipe computed
VARIABLES _price_cache, _kcalg_cache, _kcale_cache, _gpe_cache, invoked, first, wout,
          recipe, result

pipeVars ==
    <<_price_cache, _kcalg_cache, _kcale_cache, _gpe_cache, invoked, first, wout,
      recipe, result>>

\* the Nutritionix client: the disk cache, the lru_cache of the three lookups and
\* what the last call did
VARIABLES disk, lru, nout

nutriVars == <<disk, lru, nout>>

\* the Walmart cache file, the lru_cache of search_walmart, the calls of
\* search_walmart in progress, the API requests counted per key, and the first
\* and the last value returned per key
VARIABLES wfile, wlru, wth, wcalls, wfirst, wlast

walVars == <<wfile, wlru, wth, wcalls, wfirst, wlast>>

\* st.session_state, the result files under data/, whether the recipe site
\* answers, and what the last script run rendered
VARIABLES session_state, files, site, shown

appVars == <<session_state, files, site, shown>>

farVars == <<walVars, appVars>>

restVars == <<repeatVars, pipeVars, nutriVars, farVars>>

vars == <<pc, line, ret, ing, cargs, cgrams, cname, cres, restVars>>

\* the unit, density, alias and marker tables, as the lookups of the module read them
UnitWords ==
    {"pound", "pounds", "lb", "lbs", "ounce", "ounces", "oz", "gram", "grams", "g",
     "kilogram", "kilograms", "kg", "cup", "cups", "tablespoon", "tablespoons", "tbsp",
     "teaspoon", "teaspoons", "tsp", "liter", "liters", "l", "milliliter", "milliliters",
     "ml", "each", "ea", "count", "piece", "pieces", "clove", "cloves", "leaf", "leaves",
     "sprig", "sprigs", "slice", "slices"}

Tables ==
    [UNIT_SYNONYMS |-> [w \in UnitWords |-> UNIT_SYNONYMS(w)],
     MASS_PER_UNIT |-> [u \in {UNIT_SYNONYMS(w) : w \in UnitWords} |-> MASS_PER_UNIT(u)],
     DENSITY_RULES |-> [n \in ConvNames |-> DENSITY_RULES(n)],
     SYNONYM_CANONICAL |->
         [n \in {<<"scallions">>, <<"green", "onions">>, <<"brown", "sugar">>}
             |-> SYNONYM_CANONICAL(n)],
     OPTIONAL_PATTERNS |-> OPTIONAL_PATTERNS,
     PREP_WORDS |-> PREP_WORDS]

\* the keys of the caches: str.strip().lower() of the names looked up
Keys == {<<"eggs">>, <<"salt">>}

KeyOf(name) == LowerSeq(Strip(name))

\* a (price, unit) pair: the key is not cached, the zero fallback, the lookup raised
AbsentPrice == [price |-> NoneR, unit |-> ""]
ZeroPrice == [price |-> Zero, unit |-> "g"]
RaisePrice == [price |-> RaiseR, unit |-> ""]

Collaborators == {"search_walmart", "kcal_per_gram", "kcal_per_each"}

NoWrapperCall == [op |-> "", key |-> <<>>, price |-> AbsentPrice, kcal |-> NoneR]

NoRecipe == [servings |-> NoneR, ingredients |-> <<>>]

NoResult ==
    [servings |-> NoneR, total_kcal |-> Zero, per_serving_kcal |-> Zero,
     total_cost_usd |-> Zero, per_serving_cost_usd |-> Zero, breakdown |-> <<>>]

\* the caches of a fresh process
PipeInit ==
    /\ _price_cache = [k \in Keys |-> AbsentPrice]
    /\ _kcalg_cache = [k \in Keys |-> NoneR]
    /\ _kcale_cache = [k \in Keys |-> NoneR]
    /\ _gpe_cache = [k \in Keys |-> NoneR]
    /\ invoked = [c \in Collaborators |-> [k \in Keys |-> 0]]
    /\ first = [c \in Collaborators |-> [k \in Keys |-> NoWrapperCall]]
    /\ wout = NoWrapperCall
    /\ recipe = NoRecipe
    /\ result = NoResult

\* the names looked up, the modes and the three lookups behind lru_cache
NutriNames == {"egg"}
Modes == {"auto", "offline", "refresh"}
Lookups == {"kcal_per_gram", "kcal_per_each", "grams_per_each"}

\* per_g, per_each and g_each all None
NoInfo == [per_g |-> NoneR, per_each |-> NoneR, g_each |-> NoneR]

NoNutriCall ==
    [fn |-> "", mode |-> "", sent |-> FALSE, wrote |-> {}, raised |-> FALSE, val |-> NoneR]

\* no cache file, nothing memoised
NutriInit ==
    /\ disk = [k \in NutriNames |-> [info |-> NoInfo, ts |-> "none"]]
    /\ lru = [f \in Lookups |-> [m \in Modes |-> NoneR]]
    /\ nout = NoNutriCall

\* nothing has been called
\* the keys search_walmart is called with, and a key the file holds already
WKeys == {"egg", "milk"}
FileKeys == WKeys \cup {"old"}

Threads == {1, 2}

\* a call of search_walmart that is not running
IdleCall == [pc |-> "idle", key |-> "", result |-> AbsentPrice,
             cache |-> [k \in FileKeys |-> AbsentPrice]]

WalInit ==
    /\ wfile = [k \in FileKeys |-> IF k = "old" THEN [price |-> R(1, 1), unit |-> "g"]
                                   ELSE AbsentPrice]
    /\ wlru = [k \in WKeys |-> AbsentPrice]
    /\ wth = [t \in Threads |-> IdleCall]
    /\ wcalls = [k \in WKeys |-> 0]
    /\ wfirst = [k \in WKeys |-> AbsentPrice]
    /\ wlast = [k \in WKeys |-> [val |-> AbsentPrice, from |-> "nowhere"]]

\* the queries typed on the home page
Queries == {<<>>, <<GAP>>, <<"chicken">>, <<GAP, "chicken">>, <<"beef", GAP, "stew">>}

\* run_once: re.sub(r'\s+', '_', ...)
RECURSIVE Underscored(_)
Underscored(s) ==
    IF s = <<>> THEN <<>>
    ELSE IF Head(s) = GAP THEN <<"_">> \o Underscored(SkipGaps(s))
    ELSE <<Head(s)>> \o Underscored(Tail(s))

\* run_once: os.path.join("data", f"results_{safe_query}.json")
OutPath(q) == <<"data", "results_">> \o Underscored(Strip(q)) \o <<".json">>

Paths == {OutPath(q) : q \in {x \in Queries : Strip(x) # <<>>}}

AppInit ==
    /\ session_state = [page |-> "home", query |-> <<"chicken">>,
                        results_path |-> "None", results_data |-> "None"]
    /\ files = [p \in Paths |-> "absent"]
    /\ site = "up"
    /\ shown = "nothing"

RestInit ==
    /\ calls = <<>>
    /\ tables = Tables
    /\ PipeInit
    /\ WalInit
    /\ AppInit
    /\ NutriInit

NoCanon == [canonical |-> <<>>, cleaned |-> <<>>, flags |-> NoFlags, prep |-> <<>>]

Init ==
    /\ pc = "idle"
    /\ line = <<>>
    /\ ret = "pending"
    /\ ing = NoIngredient
    /\ cargs = NoArgs
    /\ cgrams = NoneR
    /\ cname = <<>>
    /\ cres = NoCanon
    /\ RestInit

\* parse_recipe_page hands one raw line to _normalize_ingredient_line
Normalize ==
    /\ pc = "idle"
    /\ \E l \in Lines :
        /\ line' = l
        /\ LET r == _normalize_ingredient_line(l) IN
            /\ ret' = r.ret
            /\ ing' = r.ing
    /\ pc' = "normalized"
    /\ UNCHANGED <<cargs, cgrams, cname, cres>>
    /\ UNCHANGED restVars

\* a call of _convert_to_grams
Convert ==
    /\ pc = "idle"
    /\ \E q \in ConvQtys, u \in ConvUnits, n \in ConvNames, p \in ConvSpecs :
        /\ cargs' = [qty |-> q, unit |-> u, name |-> n, pqty |-> p.pqty, punit |-> p.punit]
        /\ cgrams' = _convert_to_grams(q, u, n, p.pqty, p.punit)
    /\ pc' = "converted"
    /\ UNCHANGED <<line, ret, ing, cname, cres>>
    /\ UNCHANGED restVars

\* a call of _canonicalize_name
Canonicalize ==
    /\ pc = "idle"
    /\ \E n \in SeqsUpTo(CanonWords, MaxWords + 1) :
        /\ cname' = n
        /\ cres' = _canonicalize_name(n)
    /\ pc' = "canonicalized"
    /\ UNCHANGED <<line, ret, ing, cargs, cgrams>>
    /\ UNCHANGED restVars

Next == Normalize \/ Convert \/ Canonicalize

Spec == Init /\ [][Next]_vars


(***************************************************************************)
(* Properties of the line normaliser                                       *)
(***************************************************************************)
\* a record was returned for the line
Returned == pc = "normalized" /\ ret = "record"

\* the is_each test of compute_recipe_energy_and_cost
is_each(i) == i.meta.unit_canonical = "each" \/ ~IsNone(i.meta.each_count)

\* the cleaned name of a line, whatever the normaliser does with it
CleanedNameOf(l) == _canonicalize_name(_parse_quantity(BeforeComma(l)).rem).cleaned

\* C1: every returned record that is not each-based and whose quantity_g is 0
\* carries a non-empty meta why_zero.
C1_ZeroGramsHaveReason ==
    (Returned /\ ~is_each(ing) /\ ing.quantity_g = 0) => ing.meta.why_zero # ""

\* C2: the normaliser returns no record exactly when the cleaned name of the
\* line is empty; every other line yields one record, and a line without any
\* quantity, unit, package spec or weight yields quantity_g = 0 with why_zero set.
C2_DiscardIffEmptyName ==
    pc = "normalized" =>
        /\ ret \in {"none", "record"}
        /\ (ret = "none") <=> (CleanedNameOf(line) = <<>>)
        /\ ( /\ ret = "record"
             /\ IsNone(ing.meta.quantity_parsed)
             /\ ing.meta.unit_parsed = ""
             /\ IsNone(ing.meta.paren_quantity)
             /\ _preextract_weight_grams(BeforeComma(line)).n = 0 )
           => (ing.quantity_g = 0 /\ ing.meta.why_zero # "")

C2_Witness ==
    /\ pc = "normalized"
    /\ ret = "none"
    /\ BeforeComma(line) # <<>>
    /\ \E i \in 1..Len(line) : line[i] \in DecTokens

\* C3: normalising a line never raises; a fraction with denominator 0, alone in
\* a package spec or as the fractional part of a mixed number, becomes an absent
\* value.
C3_NeverRaises ==
    pc = "normalized" =>
        /\ ret # "raise"
        /\ (ret = "record" /\ Has(line, "(1/0 ounce)")) => IsNone(ing.meta.paren_quantity)
        /\ (ret = "record" /\ Len(line) >= 2 /\ line[1] = "2" /\ line[2] = "1/0")
               => ing.meta.quantity_parsed = R(2, 1)

C3_Witness ==
    /\ Returned
    /\ Len(line) >= 3 /\ line[1] = "2" /\ line[2] = "1/0" /\ line[3] = "(1/0 ounce)"

\* C4: in every returned record the keys each_count and unit_canonical = 'each'
\* come together and then quantity_g is 0; no record has both a positive
\* quantity_g and an each_count.
C4_OneAuthoritativeQuantity ==
    Returned =>
        /\ (ing.meta.unit_canonical = "each") <=> ~IsNone(ing.meta.each_count)
        /\ is_each(ing) => ing.quantity_g = 0
        /\ ~(ing.quantity_g > 0 /\ ~IsNone(ing.meta.each_count))

C4_Witness ==
    /\ Returned
    /\ is_each(ing)
    /\ _preextract_weight_grams(BeforeComma(line)).n > 0

\* C5: the flags returned by _canonicalize_name, and those of a returned
\* record, have skip_for_kcal whenever optional or to_taste is set.
C5_SkipWhenOptionalOrToTaste ==
    /\ pc = "canonicalized" =>
          ((cres.flags.optional \/ cres.flags.to_taste) => cres.flags.skip_for_kcal)
    /\ Returned => ((ing.optional \/ ing.to_taste) => ing.skip_for_kcal)

C5_Witness ==
    pc = "canonicalized" /\ cres.flags.to_taste /\ ~cres.flags.optional /\ cres.cleaned # <<>>


(***************************************************************************)
(* Properties of the conversions                                           *)
(***************************************************************************)
\* the constants of the claims, written out (28.349523125 is 45359237/1600000)
MassConstant(u) ==
    CASE u = "lb" -> R(45359237, 100000) [] u = "oz" -> R(45359237, 1600000)
      [] u = "kg" -> R(1000, 1) [] u = "g" -> R(1, 1)

WaterConstant(u) ==
    CASE u = "cup" -> R(240, 1) [] u = "tbsp" -> R(15, 1) [] u = "tsp" -> R(5, 1)
      [] u = "l" -> R(1000, 1) [] u = "ml" -> R(1, 1)

MassUnits == {"lb", "oz", "kg", "g"}
VolumeUnits == {"cup", "tbsp", "tsp", "l", "ml"}
LengthUnits == {"inch", "in", "cm"}

\* the call is one the ginger length heuristic answers
LengthHeuristicApplies(a) ==
    ~IsNone(a.pqty) /\ a.punit \in LengthUnits /\ Has(a.name, "ginger")

ConvertsByConstant ==
    /\ cargs.unit \in MassUnits => cgrams = RMul(cargs.qty, MassConstant(cargs.unit))
    /\ (cargs.unit \in VolumeUnits /\ DENSITY_RULES(cargs.name) = 0)
           => cgrams = RMul(cargs.qty, WaterConstant(cargs.unit))

\* C6 as stated: for a present quantity q, _convert_to_grams returns q times the
\* constant of a mass unit, and q times the water-equivalent constant of a
\* volume unit when the name matches no density rule.
C6_Original ==
    (pc = "converted" /\ IsNum(cargs.qty)) => ConvertsByConstant

\* C6 as amended: the same, unless the package spec names inch, in or cm and the
\* name contains 'ginger'.
C6_ConvertsByConstant ==
    (pc = "converted" /\ IsNum(cargs.qty) /\ ~LengthHeuristicApplies(cargs))
        => ConvertsByConstant

C6_Witness ==
    /\ pc = "converted"
    /\ cargs.qty = R(3, 2) /\ cargs.unit = "oz"
    /\ cargs.name = <<"ginger">> /\ cargs.punit = "ounce"
    /\ cgrams = R(136077711, 3200000)

\* the tokens before the package spec are numerals only
LeadIsNumeral(l) ==
    \E i \in 1..Len(l) :
        /\ IsParenSpec(l[i])
        /\ \A j \in 1..(i - 1) : l[j] \in DecTokens \cup FracTokens \cup VulgarGlyphs

\* C7: for a line whose numeral is followed by a package spec with a recognized
\* mass or volume unit, the grams of the record are parsed quantity (1 when
\* absent) x package quantity x the unit's constant, whatever the notation of
\* the numeral.
C7_PackageSpecGrams ==
    ( /\ Returned /\ ~is_each(ing)
      /\ LeadIsNumeral(line)
      /\ IsNum(ing.meta.paren_quantity)
      /\ UNIT_SYNONYMS(ing.meta.paren_unit) # None )
    => ing.quantity_g =
         Round2(RMul(RMul(IF IsNone(ing.meta.quantity_parsed) THEN One
                          ELSE ing.meta.quantity_parsed,
                          ing.meta.paren_quantity),
                     MASS_PER_UNIT(UNIT_SYNONYMS(ing.meta.paren_unit))))

\* what an each-based record is
EachOutcome ==
    /\ ing.quantity_g = 0
    /\ ing.meta.unit_canonical = "each"
    /\ ing.meta.each_count =
         (IF IsNone(ing.meta.quantity_parsed) THEN One ELSE ing.meta.quantity_parsed)

BareQuantity == ing.meta.unit_parsed = "" /\ IsNum(ing.meta.quantity_parsed)

\* no grams came from the pre-scan, the package spec or the length heuristic
NoWeightFound ==
    /\ _preextract_weight_grams(BeforeComma(line)).n = 0
    /\ \/ IsNone(ing.meta.paren_quantity)
       \/ /\ UNIT_SYNONYMS(ing.meta.paren_unit) = None
          /\ ~(ing.meta.paren_unit \in LengthUnits /\ Has(ing.name, "ginger"))

\* C8 as stated: a record whose parsed unit is each-like, or that has a bare
\* quantity and no unit, is each-based.
C8_Original ==
    (Returned /\ (ing.meta.unit_parsed = "each" \/ BareQuantity)) => EachOutcome

\* C8 as amended: a record whose parsed unit is each-like, or that has a bare
\* quantity, no unit and no grams from the pre-scan, the package spec or the
\* length heuristic, is each-based.
C8_EachBased ==
    (Returned /\ (ing.meta.unit_parsed = "each" \/ (BareQuantity /\ NoWeightFound)))
        => EachOutcome

C8_Witness ==
    /\ Returned /\ BareQuantity /\ NoWeightFound
    /\ ing.meta.each_count = R(3, 1)
    /\ ~IsNone(ing.meta.paren_quantity)

\* C9: for a to-taste line without a quantity the zero reason names the
\* exemption, not 'no conversion rule matched'.
C9_ToTasteReason ==
    (Returned /\ ing.to_taste /\ IsNone(ing.meta.quantity_parsed))
        => ing.meta.why_zero # WHY_NO_RULE

ThreeLargeEggsBeaten == <<"3", "large", "eggs", ",", "beaten">>

EggsOutcome(name, prep) ==
    /\ ret = "record"
    /\ ing.meta.unit_parsed = "" /\ ing.meta.quantity_parsed = R(3, 1)
    /\ ing.name = name /\ ing.prep = prep
    /\ is_each(ing) /\ ing.meta.each_count = R(3, 1)

\* C10 as stated: '3 large eggs, beaten' yields unit none, quantity 3, name
\* 'egg', preparation 'beaten', is_each and each_count 3.
C10_Original ==
    (pc = "normalized" /\ line = ThreeLargeEggsBeaten)
        => EggsOutcome(<<"egg">>, <<"beaten">>)

\* C10 as amended: '3 large eggs, beaten' yields unit none, quantity 3, name
\* 'eggs', an empty preparation, is_each and each_count 3.
C10_ThreeLargeEggs ==
    (pc = "normalized" /\ line = ThreeLargeEggsBeaten)
        => EggsOutcome(<<"eggs">>, <<>>)

C10_Witness == Returned /\ line = ThreeLargeEggsBeaten /\ ing.canonical_name = <<"eggs">>


(***************************************************************************)
(* Boundary lines                                                          *)
(***************************************************************************)
\* the tokens that are punctuation or white space
PunctTokens == DashTokens \cup {GAP}

\* C11: a line whose text before the first comma is only punctuation and
\* white space is discarded.
C11_PunctuationOnlyDiscarded ==
    ( /\ pc = "normalized"
      /\ \A i \in 1..Len(BeforeComma(line)) : BeforeComma(line)[i] \in PunctTokens )
    => ret = "none"


(***************************************************************************)
(* Re-canonicalising a name                                                *)
(***************************************************************************)
FlagKeys == {"optional", "to_taste", "approx", "skip_for_kcal"}

\* canonicalising the name n again keeps it, and sets no flag that was false in f
StableName(n, f) ==
    LET again == _canonicalize_name(n) IN
    /\ again.canonical = n
    /\ again.cleaned = n
    /\ \A k \in FlagKeys : again.flags[k] => f[k]

\* C12: _canonicalize_name applied to the canonical name, and to the cleaned
\* name, it returned gives that same name again, removes no further word and
\* sets no new flag.
C12_CanonicalizeIdempotent ==
    pc = "canonicalized" =>
        /\ StableName(cres.canonical, cres.flags)
        /\ _canonicalize_name(cres.cleaned).cleaned = cres.cleaned
        /\ \A k \in FlagKeys : _canonicalize_name(cres.cleaned).flags[k] => cres.flags[k]


(***************************************************************************)
(* The lines of one page, normalised one after the other                   *)
(***************************************************************************)
MaxCalls == 3

\* the ingredient lines of a page
RepeatLines ==
    { <<>>, <<"-">>, <<"salt", "to", "taste">>, <<"2", "Cups", "salt">>,
      <<"3", "large", "eggs", ",", "beaten">>, <<"1", "(8 ounce)", "chicken">>,
      <<"1", "(2 inch)", "ginger">> }

InitRepeat == Init

\* a normaliser that keeps one flags dict for all its calls
NormalizeAgainSharedFlags ==
    /\ pc \in {"idle", "normalized"}
    /\ Len(calls) < MaxCalls
    /\ \E l \in RepeatLines :
        LET r == _normalize_ingredient_line(l)
            f == [k \in {"optional", "to_taste", "approx", "skip_for_kcal"} |->
                     r.ing[k] \/ ing[k]]
            shared == [r.ing EXCEPT !.optional = f.optional, !.to_taste = f.to_taste,
                                    !.approx = f.approx, !.skip_for_kcal = f.skip_for_kcal]
        IN  /\ line' = l
            /\ ret' = r.ret
            /\ ing' = IF r.ret = "record" THEN shared ELSE ing
            /\ calls' = Append(calls, [line |-> l, ret |-> r.ret,
                                       ing |-> IF r.ret = "record" THEN shared ELSE r.ing])
    /\ pc' = "normalized"
    /\ UNCHANGED <<cargs, cgrams, cname, cres, tables, pipeVars, nutriVars, farVars>>

\* parse_recipe_page normalises the next raw line of the page
NormalizeAgain ==
    /\ pc \in {"idle", "normalized"}
    /\ Len(calls) < MaxCalls
    /\ \E l \in RepeatLines :
        LET r == _normalize_ingredient_line(l) IN
        /\ line' = l
        /\ ret' = r.ret
        /\ ing' = r.ing
        /\ calls' = Append(calls, [line |-> l, ret |-> r.ret, ing |-> r.ing])
    /\ pc' = "normalized"
    /\ UNCHANGED <<cargs, cgrams, cname, cres, tables, pipeVars, nutriVars, farVars>>

NextRepeat == NormalizeAgain

SpecRepeat == InitRepeat /\ [][NextRepeat]_vars

Caches ==
    [price |-> _price_cache, kcalg |-> _kcalg_cache, kcale |-> _kcale_cache,
     gpe |-> _gpe_cache, invoked |-> invoked]

\* a / b for b > 0
RDiv(a, b) == RMul(a, R(b.d, b.n))

\* a wrapper that caches what the lookup returned, not its failure
PriceForNoCacheOnFailure(st, e, name) ==
    LET key == KeyOf(name) IN
    IF st.price[key] # AbsentPrice THEN [st |-> st, val |-> st.price[key]]
    ELSE IF e.price[key] = RaisePrice
         THEN [st |-> [st EXCEPT !.invoked.search_walmart[key] = @ + 1], val |-> ZeroPrice]
    ELSE [st |-> [st EXCEPT !.price[key] = e.price[key],
                            !.invoked.search_walmart[key] = @ + 1],
          val |-> e.price[key]]

\* _price_for: the caches after the call and the pair returned
_price_for(st, e, name) ==
    LET key == KeyOf(name)
        val == IF e.price[key] = RaisePrice THEN ZeroPrice ELSE e.price[key]
    IN  IF st.price[key] # AbsentPrice THEN [st |-> st, val |-> st.price[key]]
        ELSE [st |-> [st EXCEPT !.price[key] = val, !.invoked.search_walmart[key] = @ + 1],
              val |-> val]

\* _kcal_per_g
_kcal_per_g(st, e, name) ==
    LET key == KeyOf(name)
        val == IF IsRaise(e.kcalg[key]) THEN Zero ELSE e.kcalg[key]
    IN  IF ~IsNone(st.kcalg[key]) THEN [st |-> st, val |-> st.kcalg[key]]
        ELSE [st |-> [st EXCEPT !.kcalg[key] = val, !.invoked.kcal_per_gram[key] = @ + 1],
              val |-> val]

\* _kcal_per_each
_kcal_per_each(st, e, name) ==
    LET key == KeyOf(name)
        val == IF IsRaise(e.kcale[key]) THEN Zero ELSE e.kcale[key]
    IN  IF ~IsNone(st.kcale[key]) THEN [st |-> st, val |-> st.kcale[key]]
        ELSE [st |-> [st EXCEPT !.kcale[key] = val, !.invoked.kcal_per_each[key] = @ + 1],
              val |-> val]

\* an end of _grams_per_each that assumes 50 g when it cannot divide
GramsFromKcalDefaulting(key, kpe, b) ==
    LET g == IF kpe.n > 0 /\ b.val.n > 0 THEN RDiv(kpe, b.val) ELSE R(50, 1) IN
    [st |-> [b.st EXCEPT !.gpe[key] = g], val |-> g]

\* the end of _grams_per_each: g = kpe / kpg when both are positive
GramsFromKcal(key, kpe, b) ==
    LET g == IF kpe.n > 0 /\ b.val.n > 0 THEN RDiv(kpe, b.val) ELSE Zero IN
    [st |-> [b.st EXCEPT !.gpe[key] = g], val |-> g]

\* _grams_per_each, from the call of _kcal_per_each on
GramsAfterEach(e, key, a) == GramsFromKcal(key, a.val, _kcal_per_g(a.st, e, key))

\* _grams_per_each
_grams_per_each(st, e, name) ==
    IF ~IsNone(st.gpe[KeyOf(name)]) THEN [st |-> st, val |-> st.gpe[KeyOf(name)]]
    ELSE GramsAfterEach(e, KeyOf(name), _kcal_per_each(st, e, KeyOf(name)))

\* the tuple the two cost functions return, with the caches after the call
CostRow(st, cost, unit_price, unit, notes) ==
    [st |-> st, cost |-> cost, unit_price |-> unit_price, unit_price_unit |-> unit,
     notes |-> notes]

\* a bridge that multiplies the price per each by the grams per each
GramsBridgedMultiplying(grams, price, g) ==
    IF g.val.n > 0
    THEN CostRow(g.st, RMul(grams, RMul(price, g.val)), RMul(price, g.val), "g",
                 "price unit mismatch: api=each, needed=g")
    ELSE CostRow(g.st, Zero, price, "each", "cannot bridge each->g")

\* _cost_for_grams when the price is per each: g is what _grams_per_each returned
GramsBridged(grams, price, g) ==
    IF g.val.n > 0
    THEN CostRow(g.st, RMul(grams, RDiv(price, g.val)), RDiv(price, g.val), "g",
                 "price unit mismatch: api=each, needed=g")
    ELSE CostRow(g.st, Zero, price, "each", "cannot bridge each->g")

\* _cost_for_grams once the price p is known
CostForGramsPriced(e, name, grams, p) ==
    IF grams.n <= 0 THEN CostRow(p.st, Zero, p.val.price, p.val.unit, "")
    ELSE IF p.val.unit = "g"
         THEN CostRow(p.st, RMul(grams, p.val.price), p.val.price, "g", "")
    ELSE IF p.val.unit = "each"
         THEN GramsBridged(grams, p.val.price, _grams_per_each(p.st, e, name))
    ELSE CostRow(p.st, Zero, p.val.price, p.val.unit, "unknown price unit")

\* _cost_for_grams
_cost_for_grams(st, e, name, grams) ==
    CostForGramsPriced(e, name, grams, _price_for(st, e, name))

\* _cost_for_each when the price is per gram: g is what _grams_per_each returned
EachBridged(count, price, g) ==
    IF g.val.n > 0
    THEN CostRow(g.st, RMul(count, RMul(price, g.val)), RMul(price, g.val), "each",
                 "price unit mismatch: api=g, needed=each")
    ELSE CostRow(g.st, Zero, price, "g", "cannot bridge g->each")

\* _cost_for_each once the price p is known
CostForEachPriced(e, name, count, p) ==
    IF count.n <= 0 THEN CostRow(p.st, Zero, p.val.price, p.val.unit, "")
    ELSE IF p.val.unit = "each"
         THEN CostRow(p.st, RMul(count, p.val.price), p.val.price, "each", "")
    ELSE IF p.val.unit = "g"
         THEN EachBridged(count, p.val.price, _grams_per_each(p.st, e, name))
    ELSE CostRow(p.st, Zero, p.val.price, p.val.unit, "unknown price unit")

\* _cost_for_each
_cost_for_each(st, e, name, count) ==
    CostForEachPriced(e, name, count, _price_for(st, e, name))

\* the name an ingredient is looked up by
LookupName(i) == KeyOf(IF i.canonical_name # <<>> THEN i.canonical_name ELSE i.name)

\* float(meta.get("each_count", "0") or 0) and float(quantity_g or 0.0)
qty_each(i) == IF IsNone(i.meta.each_count) THEN Zero ELSE i.meta.each_count
qty_g(i) == R(i.quantity_g, 100)

\* one line of the breakdown, with the caches after it
BreakdownRow(name, each, kcal, c) ==
    [st |-> c.st,
     row |-> [name |-> name, is_each |-> each, kcal |-> kcal, cost_usd |-> c.cost,
              unit_price |-> c.unit_price, unit_price_unit |-> c.unit_price_unit,
              notes |-> c.notes]]

\* the each branch once kcal/each is settled
EachRow(e, i, st, kpe) ==
    BreakdownRow(LookupName(i), TRUE, RMul(qty_each(i), kpe),
                 _cost_for_each(st, e, LookupName(i), qty_each(i)))

\* the fallback of the each branch: kcal/g times grams per each
EachFallback(e, i, kpe, b, g) ==
    EachRow(e, i, g.st, IF b.val.n > 0 /\ g.val.n > 0 THEN RMul(b.val, g.val) ELSE kpe)

EachFallbackFrom(e, i, kpe, b) ==
    EachFallback(e, i, kpe, b, _grams_per_each(b.st, e, LookupName(i)))

\* the each branch, a being what _kcal_per_each returned
EachBranch(e, i, a) ==
    IF a.val.n <= 0 THEN EachFallbackFrom(e, i, a.val, _kcal_per_g(a.st, e, LookupName(i)))
    ELSE EachRow(e, i, a.st, a.val)

\* the grams branch, b being what _kcal_per_g returned
GramsBranch(e, i, b) ==
    BreakdownRow(LookupName(i), FALSE, RMul(qty_g(i), b.val),
                 _cost_for_grams(b.st, e, LookupName(i), qty_g(i)))

\* a loop body that leaves out the energy of a skip_for_kcal ingredient
IngredientRowSkipping(st, e, i) ==
    IF i.skip_for_kcal
    THEN BreakdownRow(LookupName(i), is_each(i), Zero,
                      IF is_each(i) THEN _cost_for_each(st, e, LookupName(i), qty_each(i))
                      ELSE _cost_for_grams(st, e, LookupName(i), qty_g(i)))
    ELSE IF is_each(i) THEN EachBranch(e, i, _kcal_per_each(st, e, LookupName(i)))
    ELSE GramsBranch(e, i, _kcal_per_g(st, e, LookupName(i)))

\* the body of the loop over the ingredients
IngredientRow(st, e, i) ==
    IF is_each(i) THEN EachBranch(e, i, _kcal_per_each(st, e, LookupName(i)))
    ELSE GramsBranch(e, i, _kcal_per_g(st, e, LookupName(i)))

\* a divisor that trusts the servings
DivisorUnguarded(servings) == IF IsNone(servings) THEN 1 ELSE servings.n

\* max(1, recipe.servings or 1)
Divisor(servings) ==
    IF IsNone(servings) \/ servings.n = 0 THEN 1
    ELSE IF servings.n > 1 THEN servings.n ELSE 1

\* Python's total / n: ZeroDivisionError when n is 0
PyDiv(total, n) == IF n = 0 THEN RaiseR ELSE R(total.n * (IF n < 0 THEN -1 ELSE 1), total.d * Abs(n))

\* the dict compute_recipe_energy_and_cost returns
ResultOf(servings, total_kcal, total_cost, breakdown) ==
    [servings |-> servings, total_kcal |-> total_kcal,
     per_serving_kcal |-> PyDiv(total_kcal, Divisor(servings)),
     total_cost_usd |-> total_cost,
     per_serving_cost_usd |-> PyDiv(total_cost, Divisor(servings)),
     breakdown |-> breakdown]

RECURSIVE ComputeFrom(_, _, _, _, _, _, _)
\* the end of one turn of the loop: the totals grow by the row x
ComputeNext(e, r, k, total_kcal, total_cost, breakdown, x) ==
    ComputeFrom(x.st, e, r, k + 1, RAdd(total_kcal, x.row.kcal),
                RAdd(total_cost, x.row.cost_usd), Append(breakdown, x.row))

\* compute_recipe_energy_and_cost from the k-th ingredient on
ComputeFrom(st, e, r, k, total_kcal, total_cost, breakdown) ==
    IF k > Len(r.ingredients)
    THEN [st |-> st, result |-> ResultOf(r.servings, total_kcal, total_cost, breakdown)]
    ELSE ComputeNext(e, r, k, total_kcal, total_cost, breakdown,
                     IngredientRow(st, e, r.ingredients[k]))

\* compute_recipe_energy_and_cost
compute_recipe_energy_and_cost(st, e, r) == ComputeFrom(st, e, r, 1, Zero, Zero, <<>>)


(***************************************************************************)
(* The pipeline as a state machine: wrapper calls in any order, or recipes *)
(* computed one after the other as run_once does.                          *)
(***************************************************************************)
\* names as callers write them
LookupNames == { <<"eggs">>, <<"Eggs", GAP>> }

\* what a collaborator can answer
PriceOutcomes ==
    { RaisePrice, [price |-> R(1, 100), unit |-> "g"], [price |-> R(1, 4), unit |-> "each"] }
KcalPerGramOutcomes == {RaiseR, R(2, 1)}
KcalPerEachOutcomes == {RaiseR, R(70, 1)}

\* every key gets the same answers
EnvOf(p, g, pe) ==
    [price |-> [k \in Keys |-> p], kcalg |-> [k \in Keys |-> g],
     kcale |-> [k \in Keys |-> pe]]

\* the collaborators during the computation of one recipe
Envs ==
    { EnvOf(RaisePrice, RaiseR, RaiseR),
      EnvOf([price |-> R(1, 100), unit |-> "g"], R(2, 1), R(70, 1)),
      EnvOf([price |-> R(1, 4), unit |-> "each"], R(2, 1), R(70, 1)),
      EnvOf([price |-> R(1, 4), unit |-> "each"], R(2, 1), RaiseR),
      EnvOf([price |-> R(1, 2), unit |-> "oz"], RaiseR, R(70, 1)) }

\* the ingredient lines of the pages scraped
Pages ==
    { <<>>,
      << <<"3", "large", "eggs", ",", "beaten">> >>,
      << <<"2", "Cups", "salt">>, <<"3", "large", "eggs", ",", "beaten">> >>,
      << <<"1", "(8 ounce)", "eggs">>, <<"3", "g", "salt", "to", "taste">> >>,
      << <<"1.5", "eggs">>, <<"1", "(8 ounce)", "eggs">> >>,
      << <<"0", "eggs">>, <<"0", "g", "salt">> >> }

ServingsValues == {NoneR, R(0, 1), R(-1, 1), R(2, 1)}

\* ing_objs of parse_recipe_page: the records of the lines that gave one
IngObjs(page) ==
    LET all == [k \in 1..Len(page) |-> _normalize_ingredient_line(page[k])]
        kept == SelectSeq(all, LAMBDA x : x.ret = "record")
    IN  [k \in 1..Len(kept) |-> kept[k].ing]

Recipes == {[servings |-> s, ingredients |-> IngObjs(pg)] : s \in ServingsValues, pg \in Pages}

\* the call and what it returned
WrapperCall(op, name, price, kcal) ==
    [op |-> op, key |-> KeyOf(name), price |-> price, kcal |-> kcal]

\* the first value seen for the key stays
FirstSeen(c, w) ==
    IF first[c][w.key] = NoWrapperCall THEN [first EXCEPT ![c][w.key] = w] ELSE first

InitPipeline == Init

\* a call of _price_for
PriceFor ==
    /\ pc \in {"idle", "looked"}
    /\ \E n \in LookupNames, p \in PriceOutcomes :
        LET r == _price_for(Caches, EnvOf(p, RaiseR, RaiseR), n) IN
        /\ _price_cache' = r.st.price
        /\ invoked' = r.st.invoked
        /\ wout' = WrapperCall("_price_for", n, r.val, NoneR)
        /\ first' = FirstSeen("search_walmart", WrapperCall("_price_for", n, r.val, NoneR))
    /\ pc' = "looked"
    /\ UNCHANGED <<_kcalg_cache, _kcale_cache, _gpe_cache, recipe, result>>
    /\ UNCHANGED <<line, ret, ing, cargs, cgrams, cname, cres, repeatVars, nutriVars, farVars>>

\* a call of _kcal_per_g
KcalPerG ==
    /\ pc \in {"idle", "looked"}
    /\ \E n \in LookupNames, g \in KcalPerGramOutcomes :
        LET r == _kcal_per_g(Caches, EnvOf(RaisePrice, g, RaiseR), n) IN
        /\ _kcalg_cache' = r.st.kcalg
        /\ invoked' = r.st.invoked
        /\ wout' = WrapperCall("_kcal_per_g", n, AbsentPrice, r.val)
        /\ first' = FirstSeen("kcal_per_gram", WrapperCall("_kcal_per_g", n, AbsentPrice, r.val))
    /\ pc' = "looked"
    /\ UNCHANGED <<_price_cache, _kcale_cache, _gpe_cache, recipe, result>>
    /\ UNCHANGED <<line, ret, ing, cargs, cgrams, cname, cres, repeatVars, nutriVars, farVars>>

\* a call of _kcal_per_each
KcalPerEach ==
    /\ pc \in {"idle", "looked"}
    /\ \E n \in LookupNames, pe \in KcalPerEachOutcomes :
        LET r == _kcal_per_each(Caches, EnvOf(RaisePrice, RaiseR, pe), n) IN
        /\ _kcale_cache' = r.st.kcale
        /\ invoked' = r.st.invoked
        /\ wout' = WrapperCall("_kcal_per_each", n, AbsentPrice, r.val)
        /\ first' = FirstSeen("kcal_per_each", WrapperCall("_kcal_per_each", n, AbsentPrice, r.val))
    /\ pc' = "looked"
    /\ UNCHANGED <<_price_cache, _kcalg_cache, _gpe_cache, recipe, result>>
    /\ UNCHANGED <<line, ret, ing, cargs, cgrams, cname, cres, repeatVars, nutriVars, farVars>>

\* a call of _grams_per_each
GramsPerEach ==
    /\ pc \in {"idle", "looked"}
    /\ \E n \in LookupNames, g \in KcalPerGramOutcomes, pe \in KcalPerEachOutcomes :
        LET r == _grams_per_each(Caches, EnvOf(RaisePrice, g, pe), n) IN
        /\ _kcalg_cache' = r.st.kcalg
        /\ _kcale_cache' = r.st.kcale
        /\ _gpe_cache' = r.st.gpe
        /\ invoked' = r.st.invoked
        /\ wout' = WrapperCall("_grams_per_each", n, AbsentPrice, r.val)
    /\ pc' = "looked"
    /\ UNCHANGED <<_price_cache, first, recipe, result>>
    /\ UNCHANGED <<line, ret, ing, cargs, cgrams, cname, cres, repeatVars, nutriVars, farVars>>

\* run_once computes the next recipe
Compute ==
    /\ pc \in {"idle", "computed"}
    /\ \E r \in Recipes, e \in Envs :
        LET c == compute_recipe_energy_and_cost(Caches, e, r) IN
        /\ _price_cache' = c.st.price
        /\ _kcalg_cache' = c.st.kcalg
        /\ _kcale_cache' = c.st.kcale
        /\ _gpe_cache' = c.st.gpe
        /\ invoked' = c.st.invoked
        /\ recipe' = r
        /\ result' = c.result
    /\ pc' = "computed"
    /\ UNCHANGED <<first, wout>>
    /\ UNCHANGED <<line, ret, ing, cargs, cgrams, cname, cres, repeatVars, nutriVars, farVars>>

NextPipeline == PriceFor \/ KcalPerG \/ KcalPerEach \/ GramsPerEach \/ Compute

SpecPipeline == InitPipeline /\ [][NextPipeline]_vars


(***************************************************************************)
(* Properties of the pipeline                                              *)
(***************************************************************************)
RECURSIVE SumOf(_)
SumOf(q) == IF q = <<>> THEN Zero ELSE RAdd(q[1], SumOf(Tail(q)))

\* the energy of one ingredient, by the values the lookups gave for its name
EnergyOf(i) ==
    IF is_each(i) THEN RMul(qty_each(i), _kcale_cache[LookupName(i)])
    ELSE RMul(qty_g(i), _kcalg_cache[LookupName(i)])

\* the divisor of the claim: the servings, 1 when they are None, 0 or below 1
ServingsOrOne(s) == IF IsNum(s) /\ s.n >= 1 THEN s ELSE One

\* C14: the totals are the sums over the ingredients of grams x kcal per gram,
\* or each_count x kcal per each, and of the ingredient costs; the per-serving
\* values are the totals divided by the servings, by 1 when the servings are
\* None, 0 or below 1, and the division never fails.
C14_TotalsAndPerServing ==
    pc = "computed" =>
        /\ Len(result.breakdown) = Len(recipe.ingredients)
        /\ result.total_kcal =
               SumOf([k \in 1..Len(recipe.ingredients) |-> EnergyOf(recipe.ingredients[k])])
        /\ result.total_cost_usd =
               SumOf([k \in 1..Len(result.breakdown) |-> result.breakdown[k].cost_usd])
        /\ IsNum(result.per_serving_kcal) /\ IsNum(result.per_serving_cost_usd)
        /\ RMul(result.per_serving_kcal, ServingsOrOne(recipe.servings)) = result.total_kcal
        /\ RMul(result.per_serving_cost_usd, ServingsOrOne(recipe.servings))
               = result.total_cost_usd

C14_Witness ==
    /\ pc = "computed"
    /\ recipe.servings = R(0, 1)
    /\ Len(result.breakdown) = 2
    /\ result.breakdown[1].is_each # result.breakdown[2].is_each
    /\ result.breakdown[1].kcal.n > 0 /\ result.breakdown[2].kcal.n > 0
    /\ result.total_cost_usd.n > 0
    /\ result.per_serving_kcal = result.total_kcal

\* the collaborator behind a wrapper
CollaboratorOf(op) ==
    CASE op = "_price_for" -> "search_walmart"
      [] op = "_kcal_per_g" -> "kcal_per_gram"
      [] op = "_kcal_per_each" -> "kcal_per_each"

AllRaise == EnvOf(RaisePrice, RaiseR, RaiseR)

\* C15: a wrapper whose collaborator raises returns the zero fallback, no
\* wrapper returns a failure, the collaborator is invoked at most once per
\* key, and a call returns what the first call for its key returned.
C15_ZeroFallbackAndOneLookup ==
    /\ \A c \in Collaborators, k \in Keys : invoked[c][k] <= 1
    /\ \A n \in LookupNames :
          /\ _price_cache[KeyOf(n)] = AbsentPrice
                => _price_for(Caches, AllRaise, n).val = ZeroPrice
          /\ IsNone(_kcalg_cache[KeyOf(n)]) => _kcal_per_g(Caches, AllRaise, n).val = Zero
          /\ IsNone(_kcale_cache[KeyOf(n)]) => _kcal_per_each(Caches, AllRaise, n).val = Zero
    /\ (pc = "looked" /\ wout.op # "_grams_per_each") =>
          /\ wout.price # RaisePrice /\ ~IsRaise(wout.kcal)
          /\ wout = [first[CollaboratorOf(wout.op)][wout.key] EXCEPT !.op = wout.op]

C15_Witness ==
    /\ pc = "looked"
    /\ wout.op = "_kcal_per_each" /\ wout.kcal = Zero /\ wout.key = <<"eggs">>
    /\ _price_cache[<<"eggs">>] = ZeroPrice
    /\ _kcalg_cache[<<"eggs">>] = R(2, 1)
    /\ _gpe_cache[<<"eggs">>] = Zero
    /\ \A c \in Collaborators : invoked[c][<<"eggs">>] = 1


(***************************************************************************)
(* The Nutritionix client of module/nutrition_info.py.  The lookups are    *)
(* made for the name "egg"; api is what happens to the request of the      *)
(* call, if it makes one.                                                  *)
(***************************************************************************)
ApiOutcomes == {"no_credentials", "http_error", "no_foods", "each_food", "weighed_food"}

\* what batch_kcal and _try_per_each_from_item extract from the answer: a food
\* served by the piece, or one served by weight (its per_each only for a name
\* in prefer_each)
Extracted(api, prefer_each) ==
    CASE api = "each_food" -> [per_g |-> R(2, 1), per_each |-> R(70, 1), g_each |-> R(35, 1)]
      [] api = "weighed_food" ->
             [per_g |-> R(2, 1), per_each |-> IF prefer_each THEN R(100, 1) ELSE NoneR,
              g_each |-> NoneR]
      [] OTHER -> NoInfo

\* _nutri_cache_get_many: the keys answered from the cache file
_nutri_cache_get_many(d, keys, offline_only) ==
    {k \in keys : d[k].ts # "none" /\ (offline_only \/ d[k].ts = "valid")}

\* what a call did: the cache file after it, whether a request was sent, the
\* keys written, whether it raised, and its data
Did(d, sent, wrote, raised, data) ==
    [disk |-> d, sent |-> sent, wrote |-> wrote, raised |-> raised, data |-> data]

\* stages 3 and 4 of batch_kcal_cached: the request and the write-back
FetchAndWrite(d, keys, prefer_each, api) ==
    IF api = "no_credentials" THEN Did(d, FALSE, {}, TRUE, [k \in keys |-> NoInfo])
    ELSE IF api = "http_error" THEN Did(d, TRUE, {}, TRUE, [k \in keys |-> NoInfo])
    ELSE Did([k \in NutriNames |->
                 IF k \in keys THEN [info |-> Extracted(api, prefer_each), ts |-> "valid"]
                 ELSE d[k]],
             TRUE, keys, FALSE, [k \in keys |-> Extracted(api, prefer_each)])

\* a batch_kcal_cached that fetches what the cache misses in every mode
BatchFetchingOffline(d, names, prefer_each, mode, api) ==
    LET keys == {names[i] : i \in 1..Len(names)}
        hits == _nutri_cache_get_many(d, keys, mode = "offline")
    IN  IF keys \subseteq hits /\ mode # "refresh"
        THEN Did(d, FALSE, {}, FALSE, [k \in keys |-> d[k].info])
        ELSE FetchAndWrite(d, keys, prefer_each, api)

\* batch_kcal_cached
batch_kcal_cached(d, names, prefer_each, mode, api) ==
    LET keys == {names[i] : i \in 1..Len(names)}
        hits == _nutri_cache_get_many(d, keys, mode = "offline")
        todo == IF mode = "refresh" THEN keys ELSE keys \ hits
    IN  IF todo = {} \/ mode = "offline"
        THEN Did(d, FALSE, {}, FALSE,
                 [k \in keys |-> IF k \in hits /\ mode # "refresh" THEN d[k].info ELSE NoInfo])
        ELSE FetchAndWrite(d, keys, prefer_each, api)

\* a lookup answered by lru_cache: no call of batch_kcal_cached at all
Memoised(d, l, fn, mode) ==
    [disk |-> d, lru |-> l,
     out |-> [fn |-> fn, mode |-> mode, sent |-> FALSE, wrote |-> {}, raised |-> FALSE,
              val |-> l[fn][mode]]]

\* a lookup that ran: lru_cache keeps the value returned, not a failure
Ran(l, fn, mode, b, val) ==
    [disk |-> b.disk,
     lru |-> IF IsNum(val) THEN [l EXCEPT ![fn][mode] = val] ELSE l,
     out |-> [fn |-> fn, mode |-> mode, sent |-> b.sent, wrote |-> b.wrote,
              raised |-> ~IsNum(val), val |-> val]]

\* the value kcal_per_gram makes of the data, RaiseR for its ValueError
PerGramOf(b) ==
    IF b.raised \/ IsNone(b.data["egg"].per_g) \/ b.data["egg"].per_g.n = 0 THEN RaiseR
    ELSE b.data["egg"].per_g

\* the value kcal_per_each makes of the data
PerEachOf(b) ==
    IF b.raised THEN RaiseR
    ELSE IF IsNum(b.data["egg"].per_each) /\ b.data["egg"].per_each.n > 0
         THEN b.data["egg"].per_each
    ELSE IF /\ IsNum(b.data["egg"].per_g) /\ b.data["egg"].per_g.n > 0
            /\ IsNum(b.data["egg"].g_each) /\ b.data["egg"].g_each.n > 0
         THEN RMul(b.data["egg"].per_g, b.data["egg"].g_each)
    ELSE RaiseR

\* the value grams_per_each makes of the data
GramsEachOf(b) ==
    IF b.raised THEN RaiseR
    ELSE IF IsNum(b.data["egg"].g_each) /\ b.data["egg"].g_each.n > 0
         THEN b.data["egg"].g_each
    ELSE Zero

\* kcal_per_gram("egg", mode)
kcal_per_gram(d, l, mode, api) ==
    IF ~IsNone(l.kcal_per_gram[mode]) THEN Memoised(d, l, "kcal_per_gram", mode)
    ELSE Ran(l, "kcal_per_gram", mode, batch_kcal_cached(d, <<"egg">>, FALSE, mode, api),
             PerGramOf(batch_kcal_cached(d, <<"egg">>, FALSE, mode, api)))

\* kcal_per_each("egg", mode)
kcal_per_each(d, l, mode, api) ==
    IF ~IsNone(l.kcal_per_each[mode]) THEN Memoised(d, l, "kcal_per_each", mode)
    ELSE Ran(l, "kcal_per_each", mode, batch_kcal_cached(d, <<"egg">>, TRUE, mode, api),
             PerEachOf(batch_kcal_cached(d, <<"egg">>, TRUE, mode, api)))

\* grams_per_each("egg", mode)
grams_per_each(d, l, mode, api) ==
    IF ~IsNone(l.grams_per_each[mode]) THEN Memoised(d, l, "grams_per_each", mode)
    ELSE Ran(l, "grams_per_each", mode, batch_kcal_cached(d, <<"egg">>, FALSE, mode, api),
             GramsEachOf(batch_kcal_cached(d, <<"egg">>, FALSE, mode, api)))

normVars == <<pc, line, ret, ing, cargs, cgrams, cname, cres>>

\* the lookups one process memoises in a run of the model
MaxMemo == 2

\* a lookup runs when it is memoised already or lru_cache has room for it
MayLookup(fn, m) ==
    \/ ~IsNone(lru[fn][m])
    \/ Cardinality({fm \in Lookups \X Modes : ~IsNone(lru[fm[1]][fm[2]])}) < MaxMemo

InitNutri == Init

\* a call of kcal_per_gram
KcalPerGram ==
    /\ \E m \in Modes, api \in ApiOutcomes :
        /\ MayLookup("kcal_per_gram", m)
        /\ LET r == kcal_per_gram(disk, lru, m, api) IN
           disk' = r.disk /\ lru' = r.lru /\ nout' = r.out
    /\ UNCHANGED <<normVars, repeatVars, pipeVars, farVars>>

\* a call of kcal_per_each
KcalPerEachLookup ==
    /\ \E m \in Modes, api \in ApiOutcomes :
        /\ MayLookup("kcal_per_each", m)
        /\ LET r == kcal_per_each(disk, lru, m, api) IN
           disk' = r.disk /\ lru' = r.lru /\ nout' = r.out
    /\ UNCHANGED <<normVars, repeatVars, pipeVars, farVars>>

\* a call of grams_per_each
GramsPerEachLookup ==
    /\ \E m \in Modes, api \in ApiOutcomes :
        /\ MayLookup("grams_per_each", m)
        /\ LET r == grams_per_each(disk, lru, m, api) IN
           disk' = r.disk /\ lru' = r.lru /\ nout' = r.out
    /\ UNCHANGED <<normVars, repeatVars, pipeVars, farVars>>

\* a direct call of batch_kcal_cached
BatchKcalCached ==
    /\ \E names \in {<<>>, <<"egg">>}, m \in Modes, api \in ApiOutcomes :
        LET b == batch_kcal_cached(disk, names, FALSE, m, api) IN
        /\ disk' = b.disk
        /\ nout' = [fn |-> "batch_kcal_cached", mode |-> m, sent |-> b.sent,
                    wrote |-> b.wrote, raised |-> b.raised, val |-> NoneR]
    /\ UNCHANGED <<lru, normVars, repeatVars, pipeVars, farVars>>

\* _NUTRI_CACHE_TTL goes by: what was valid is expired
Expire ==
    /\ \E k \in NutriNames : disk[k].ts = "valid"
    /\ disk' = [k \in NutriNames |->
                   IF disk[k].ts = "valid" THEN [disk[k] EXCEPT !.ts = "expired"] ELSE disk[k]]
    /\ UNCHANGED <<lru, nout, normVars, repeatVars, pipeVars, farVars>>

NextNutri == KcalPerGram \/ KcalPerEachLookup \/ GramsPerEachLookup \/ BatchKcalCached \/ Expire

SpecNutri == InitNutri /\ [][NextNutri]_vars

\* C16: a call in mode 'offline' sends no request to the API and writes
\* nothing to the cache file, whatever the cache holds.
C16_OfflineNeverFetches ==
    nout.mode = "offline" => (~nout.sent /\ nout.wrote = {})

C16_Witness ==
    /\ nout.mode = "offline" /\ nout.fn = "kcal_per_each"
    /\ disk["egg"].ts = "expired"
    /\ nout.val = R(70, 1)
    /\ IsNone(lru.kcal_per_gram["offline"])

\* C17: every kcal_per_gram or kcal_per_each in mode 'refresh' that returns a
\* value has sent a request to the API and rewritten the entry of its name.
C17_RefreshAlwaysFetches ==
    (nout.mode = "refresh" /\ nout.fn \in {"kcal_per_gram", "kcal_per_each"} /\ ~nout.raised)
        => (nout.sent /\ "egg" \in nout.wrote)


(***************************************************************************)
(* The leading quantity and the unit of a line                             *)
(***************************************************************************)
\* a simple fraction a/b with b # 0
IsFraction(t) == t \in FracTokens /\ FracDen(t) # 0

\* the numeric value of the leading numeral expression of the line l: a mixed
\* number, a number and a glyph, a glyph, a simple fraction, or a decimal;
\* NoneR when l starts with none of them
LeadingValue(l) ==
    IF l = <<>> THEN NoneR
    ELSE IF l[1] \in DecTokens /\ Len(l) >= 2 /\ IsFraction(l[2])
         THEN RAdd(DecVal(l[1]), R(FracNum(l[2]), FracDen(l[2])))
    ELSE IF l[1] \in DecTokens /\ Len(l) >= 2 /\ l[2] \in VulgarGlyphs
         THEN RAdd(DecVal(l[1]), _VULGAR(l[2]))
    ELSE IF l[1] \in VulgarGlyphs THEN _VULGAR(l[1])
    ELSE IF IsFraction(l[1]) THEN R(FracNum(l[1]), FracDen(l[1]))
    ELSE IF l[1] \in DecTokens /\ ~(Len(l) >= 2 /\ l[2] \in FracTokens) THEN DecVal(l[1])
    ELSE NoneR

\* C18: the quantity of a record is the numeric value of the leading numeral
\* expression of its line: a + b/c for a mixed number, a + the glyph for a
\* number and a glyph, a/b for a simple fraction, the number for a decimal.
C18_LeadingQuantityValue ==
    (Returned /\ IsNum(LeadingValue(line)))
        => ing.meta.quantity_parsed = LeadingValue(line)

\* the words of the line l that unit detection looks at: what follows the
\* package spec and the leading quantity
WordsAfterQuantity(l) == Split(ParseNumber(ParseParen(BeforeComma(l)).s).s)

\* the second word is a unit and the first is none
UnitInSecondPosition(parts) ==
    /\ Len(parts) >= 2
    /\ UNIT_SYNONYMS(Lower(parts[1])) = None
    /\ UNIT_SYNONYMS(Lower(parts[2])) # None

\* the words the canonicaliser leaves in a name
PlainWords == {w \in Words : w \notin SizeWords \cup PREP_WORDS}

\* C19: only the matched unit token is consumed: when the unit is found in
\* second position the unrecognized first word stays in the remainder, and
\* a line whose first word is a plain name word is then kept, with that word
\* in its name; when neither word is a unit nothing is removed.
C19_OnlyTheUnitIsConsumed ==
    (pc = "normalized" /\ ret # "raised") =>
        /\ UnitInSecondPosition(WordsAfterQuantity(line)) =>
               /\ _parse_quantity(line).rem =
                      <<WordsAfterQuantity(line)[1]>> \o From(WordsAfterQuantity(line), 3)
               /\ WordsAfterQuantity(line)[1] \in PlainWords =>
                      (ret = "record" /\ Has(ing.meta.name_parsed, WordsAfterQuantity(line)[1]))
        /\ _parse_quantity(line).unit = None =>
               Split(_parse_quantity(line).rem) = WordsAfterQuantity(line)

\* the grams of the line l when its missing quantity counts as 1, in hundredths
GramsCountingOne(l, name_clean) ==
    LET grams == GramsFor(_preextract_weight_grams(BeforeComma(l)),
                          [_parse_quantity(l) EXCEPT !.qty = One], name_clean)
    IN  IF IsNone(grams) THEN 0 ELSE Round2(grams)

\* C20: a record with a unit and no quantity is converted as if its count
\* were 1: an each-like unit gives each_count 1, any other unit gives the
\* grams of one unit (of one package, when the line has a package spec).
C20_UnitWithoutQuantityCountsOne ==
    (Returned /\ IsNone(ing.meta.quantity_parsed) /\ ing.meta.unit_parsed # "") =>
        IF ing.meta.unit_parsed = "each"
        THEN ing.meta.each_count = One
        ELSE ing.quantity_g = GramsCountingOne(line, ing.meta.name_parsed)


(***************************************************************************)
(* The order of the conversion decisions                                   *)
(***************************************************************************)
\* the grams of the ginger length heuristic for the record i, in hundredths
LengthGrams(i) ==
    Round2(RMul(IF IsNone(i.meta.quantity_parsed) THEN One ELSE i.meta.quantity_parsed,
                RMul(RMul(i.meta.paren_quantity,
                          IF i.meta.paren_unit = "cm" THEN CM_TO_INCH ELSE One),
                     GINGER_G_PER_INCH)))

\* C21: whenever the package spec of a line names inch, in or cm and the
\* cleaned name contains 'ginger', the record is in grams and its grams are
\* outer quantity (default 1) x inches x 5.5, whatever unit follows the spec.
C21_LengthHeuristicFirst ==
    ( /\ Returned
      /\ IsNum(ing.meta.paren_quantity) /\ ing.meta.paren_unit \in LengthUnits
      /\ Has(ing.meta.name_parsed, "ginger") )
    => (~is_each(ing) /\ ing.quantity_g = LengthGrams(ing))

\* the patterns of the rule list, top to bottom, with their grams per cup
RuleList ==
    << [pat |-> "rice", cup |-> 185], [pat |-> "oil", cup |-> 218],
       [pat |-> "broth", cup |-> 240], [pat |-> "brown sugar", cup |-> 220],
       [pat |-> "sugar", cup |-> 200] >>

\* the pattern pat is found in the name n
Matches(pat, n) ==
    CASE pat = "rice" -> RiceRule(n)
      [] pat = "oil" -> Has(n, "oil")
      [] pat = "broth" -> Has(n, "broth") \/ Has(n, "stock")
      [] pat = "brown sugar" -> Adjacent(n, "brown", "sugar")
      [] pat = "sugar" -> Has(n, "sugar")

\* the rule i is the first of the list that matches n
IsFirstMatch(i, n) ==
    Matches(RuleList[i].pat, n) /\ \A j \in 1..(i - 1) : ~Matches(RuleList[j].pat, n)

\* the grams per unit the rule i gives, the water-equivalent constant for a
\* unit the rule has no entry for
RuleGrams(i, unit) ==
    CASE unit = "cup" -> R(RuleList[i].cup, 1)
      [] unit = "tbsp" -> R(RuleList[i].cup, 16)
      [] unit = "tsp" -> R(RuleList[i].cup, 48)
      [] OTHER -> WaterConstant(unit)

\* C22: a volume is converted with the weights of the first rule of the list
\* that matches the name and of no later one: a name with 'brown sugar' that
\* matches no earlier rule weighs 220 g per cup, and 2 tablespoons of olive
\* oil weigh 27.25 g.
C22_FirstMatchingRule ==
    ( /\ pc = "converted" /\ IsNum(cargs.qty) /\ cargs.unit \in VolumeUnits
      /\ ~LengthHeuristicApplies(cargs) )
    => /\ \A i \in 1..Len(RuleList) :
              IsFirstMatch(i, cargs.name) =>
                  cgrams = RMul(cargs.qty, RuleGrams(i, cargs.unit))
       /\ (IsFirstMatch(4, cargs.name) /\ cargs.unit = "cup") =>
              cgrams = RMul(cargs.qty, R(220, 1))
       /\ (cargs.name = <<"olive", "oil">> /\ cargs.unit = "tbsp" /\ cargs.qty = R(2, 1)) =>
              cgrams = R(109, 4)

C22_Witness ==
    /\ pc = "converted"
    /\ cargs.name = <<"brown", "sugar">> /\ cargs.unit = "cup" /\ cargs.qty = R(3, 2)
    /\ IsNone(cargs.pqty)
    /\ cgrams = R(330, 1)


(***************************************************************************)
(* The cost of an ingredient whose price has another unit                  *)
(***************************************************************************)
\* the quantity the ingredient i is needed in
Needed(i) == IF is_each(i) THEN qty_each(i) ELSE qty_g(i)

\* the cost the row x of the ingredient i must have when its price is per
\* the other unit and one each weighs gpe grams
BridgedCost(i, x, price, gpe) ==
    IF gpe.n > 0
    THEN x.cost_usd = (IF is_each(i) THEN RMul(Needed(i), RMul(price, gpe))
                       ELSE RMul(Needed(i), RDiv(price, gpe)))
    ELSE /\ x.cost_usd = Zero
         /\ x.notes = (IF is_each(i) THEN "cannot bridge g->each" ELSE "cannot bridge each->g")

\* C23: grams per each are kcal per each / kcal per gram when both are
\* positive; an ingredient needed in grams and priced per each costs
\* grams x price / grams per each, one needed in pieces and priced per gram
\* costs count x price x grams per each, the cost is 0 with a 'cannot bridge'
\* note when grams per each are not positive, and a non-positive quantity
\* costs 0.
C23_BridgedCost ==
    /\ \A k \in Keys :
          ~IsNone(_gpe_cache[k]) =>
              _gpe_cache[k] = (IF _kcale_cache[k].n > 0 /\ _kcalg_cache[k].n > 0
                               THEN RDiv(_kcale_cache[k], _kcalg_cache[k]) ELSE Zero)
    /\ pc = "computed" =>
          \A k \in 1..Len(recipe.ingredients) :
              /\ Needed(recipe.ingredients[k]).n <= 0 => result.breakdown[k].cost_usd = Zero
              /\ ( /\ Needed(recipe.ingredients[k]).n > 0
                   /\ _price_cache[LookupName(recipe.ingredients[k])].unit =
                          (IF is_each(recipe.ingredients[k]) THEN "g" ELSE "each") )
                 => BridgedCost(recipe.ingredients[k], result.breakdown[k],
                                _price_cache[LookupName(recipe.ingredients[k])].price,
                                _gpe_cache[LookupName(recipe.ingredients[k])])

C23_Witness ==
    /\ pc = "computed"
    /\ \E k \in 1..Len(result.breakdown) :
          /\ ~result.breakdown[k].is_each
          /\ result.breakdown[k].notes = "price unit mismatch: api=each, needed=g"
          /\ result.breakdown[k].cost_usd.n > 0
          /\ _gpe_cache[result.breakdown[k].name] = R(35, 1)


(***************************************************************************)
(* An each-like unit and a weight on the same line                         *)
(***************************************************************************)
\* the weight the line l carries before the each decision: the pre-scan's
\* grams or those of a mass package spec
WeightOnLine(l) ==
    GramsFor(_preextract_weight_grams(BeforeComma(l)),
             [_parse_quantity(l) EXCEPT !.unit = None], <<>>)

\* C24: a record whose parsed unit is 'each' is each-based, with 0 grams and
\* the quantity (1 when there is none) as its each_count, also when the
\* pre-scan or the package spec found a positive weight on the line.
C24_EachUnitBeatsWeight ==
    (Returned /\ ing.meta.unit_parsed = "each") =>
        /\ ing.quantity_g = 0
        /\ ing.meta.unit_canonical = "each"
        /\ ing.meta.each_count =
               (IF IsNone(ing.meta.quantity_parsed) THEN One ELSE ing.meta.quantity_parsed)
        /\ ing.meta.why_zero = WHY_EACH

C24_Witness ==
    /\ Returned /\ ing.meta.unit_parsed = "each"
    /\ ing.meta.paren_unit = "ounce" /\ ing.meta.quantity_parsed = R(3, 1)
    /\ IsNum(WeightOnLine(line)) /\ WeightOnLine(line).n > 0
    /\ ing.meta.each_count = R(3, 1) /\ ing.quantity_g = 0


(***************************************************************************)
(* The fallback of the each branch                                         *)
(***************************************************************************)
\* C25: a positive _gpe_cache entry has positive _kcale_cache and
\* _kcalg_cache entries beside it, so the fallback of the each branch never
\* takes effect: an each-based ingredient whose kcal per each failed
\* contributes 0 kcal.
C25_FallbackNeverTakesEffect ==
    /\ \A k \in Keys :
          (~IsNone(_gpe_cache[k]) /\ _gpe_cache[k].n > 0) =>
              /\ IsNum(_kcale_cache[k]) /\ _kcale_cache[k].n > 0
              /\ IsNum(_kcalg_cache[k]) /\ _kcalg_cache[k].n > 0
    /\ pc = "computed" =>
          \A k \in 1..Len(recipe.ingredients) :
              ( /\ is_each(recipe.ingredients[k])
                /\ _kcale_cache[LookupName(recipe.ingredients[k])].n <= 0 )
              => result.breakdown[k].kcal = Zero

C25_Witness ==
    /\ pc = "computed"
    /\ \E k \in 1..Len(recipe.ingredients) :
          /\ is_each(recipe.ingredients[k]) /\ qty_each(recipe.ingredients[k]).n > 0
          /\ _kcale_cache[LookupName(recipe.ingredients[k])] = Zero
          /\ _kcalg_cache[LookupName(recipe.ingredients[k])] = R(2, 1)
          /\ _gpe_cache[LookupName(recipe.ingredients[k])] = Zero
          /\ result.breakdown[k].kcal = Zero


(***************************************************************************)
(* The breakdown and the flags of an ingredient                            *)
(***************************************************************************)
\* the row x is the full contribution of the ingredient i
FullRow(i, x) ==
    /\ x.name = LookupName(i)
    /\ x.is_each = is_each(i)
    /\ IF is_each(i)
       THEN /\ IsNum(_kcale_cache[LookupName(i)])
            /\ x.kcal = RMul(qty_each(i), _kcale_cache[LookupName(i)])
       ELSE /\ IsNum(_kcalg_cache[LookupName(i)])
            /\ x.kcal = RMul(qty_g(i), _kcalg_cache[LookupName(i)])

ValueAfter(earlier, fn, api) ==
    IF fn = "kcal_per_each"
    THEN kcal_per_each(earlier.disk, earlier.lru, "auto", api).out.val
    ELSE kcal_per_gram(earlier.disk, earlier.lru, "auto", api).out.val

\* C29: in mode 'auto' kcal_per_each gives the same value, or the same
\* failure, whether or not kcal_per_gram was called before it, and
\* kcal_per_gram the same whether or not kcal_per_each was called before it.
C29_LookupsCommute ==
    \A api \in ApiOutcomes :
        /\ ValueAfter(kcal_per_gram(disk, lru, "auto", api), "kcal_per_each", api)
               = kcal_per_each(disk, lru, "auto", api).out.val
        /\ ValueAfter(kcal_per_each(disk, lru, "auto", api), "kcal_per_gram", api)
               = kcal_per_gram(disk, lru, "auto", api).out.val


(***************************************************************************)
(* search_walmart of module/scraper_walmart.py: the lru_cache, the cache   *)
(* file read first, the request, and the read-modify-write of the file.    *)
(* Calls run in threads of one process; a restart begins a later process.  *)
(***************************************************************************)
\* what the request can come to
WalmartOutcomes == {"api_error", "no_item", "per_each"}

\* the result of step 2: the price found, (0.0, "g") for an error or no item
Fetched(o) == IF o = "per_each" THEN [price |-> R(1, 2), unit |-> "each"] ELSE ZeroPrice

\* the requests sent for one key in a run of the model
MaxRequests == 2

\* a step 3 that leaves the fallback out of the file
StoredUnlessFallback(cache, k, res) ==
    IF res = ZeroPrice THEN cache ELSE [cache EXCEPT ![k] = res]

\* step 3: cache[k] = result on the copy that was read
Stored(cache, k, res) == [cache EXCEPT ![k] = res]

\* search_walmart returns val for k, and lru_cache keeps it
ReturnFrom(k, val, from) ==
    /\ wlru' = [wlru EXCEPT ![k] = val]
    /\ wfirst' = [wfirst EXCEPT ![k] = IF @ = AbsentPrice THEN val ELSE @]
    /\ wlast' = [wlast EXCEPT ![k] = [val |-> val, from |-> from]]

\* search_walmart(k) is called in thread t, no other call for k being under
\* way: lru_cache answers, or step 1 finds k in the file, or the call goes on
CallSearch(t) ==
    /\ wth[t].pc = "idle"
    /\ \E k \in WKeys :
          /\ \A u \in Threads \ {t} : wth[u].key # k
          /\ IF wlru[k] # AbsentPrice
             THEN ReturnFrom(k, wlru[k], "lru") /\ UNCHANGED wth
             ELSE IF wfile[k] # AbsentPrice
             THEN ReturnFrom(k, wfile[k], "file") /\ UNCHANGED wth
             ELSE /\ wth' = [wth EXCEPT ![t] = [IdleCall EXCEPT !.pc = "fetching", !.key = k]]
                  /\ UNCHANGED <<wlru, wfirst, wlast>>
    /\ UNCHANGED <<wfile, wcalls, normVars, repeatVars, pipeVars, nutriVars, appVars>>

\* step 2: the request and its result
FetchItem(t) ==
    /\ wth[t].pc = "fetching"
    /\ wcalls[wth[t].key] < MaxRequests
    /\ \E o \in WalmartOutcomes :
          wth' = [wth EXCEPT ![t].pc = "fetched", ![t].result = Fetched(o)]
    /\ wcalls' = [wcalls EXCEPT ![wth[t].key] = @ + 1]
    /\ UNCHANGED <<wfile, wlru, wfirst, wlast>>
    /\ UNCHANGED <<normVars, repeatVars, pipeVars, nutriVars, appVars>>

\* step 3, _cache_read: the call takes its copy of the file
ReadBack(t) ==
    /\ wth[t].pc = "fetched"
    /\ wth' = [wth EXCEPT ![t].pc = "read", ![t].cache = wfile]
    /\ UNCHANGED <<wfile, wlru, wcalls, wfirst, wlast>>
    /\ UNCHANGED <<normVars, repeatVars, pipeVars, nutriVars, appVars>>

\* step 3, _cache_write of the copy with the result in it, and the return
WriteBack(t) ==
    /\ wth[t].pc = "read"
    /\ wfile' = Stored(wth[t].cache, wth[t].key, wth[t].result)
    /\ ReturnFrom(wth[t].key, wth[t].result, "api")
    /\ wth' = [wth EXCEPT ![t] = IdleCall]
    /\ UNCHANGED wcalls
    /\ UNCHANGED <<normVars, repeatVars, pipeVars, nutriVars, appVars>>

\* the process ends and a later one begins: the lru_cache is empty again
Restart ==
    /\ \A t \in Threads : wth[t].pc = "idle"
    /\ \E k \in WKeys : wlru[k] # AbsentPrice
    /\ wlru' = [k \in WKeys |-> AbsentPrice]
    /\ UNCHANGED <<wfile, wth, wcalls, wfirst, wlast>>
    /\ UNCHANGED <<normVars, repeatVars, pipeVars, nutriVars, appVars>>

InitWalmart == Init

\* calls in the threads of a pool
NextWalmart ==
    \/ \E t \in Threads : CallSearch(t) \/ FetchItem(t) \/ ReadBack(t) \/ WriteBack(t)
    \/ Restart

SpecWalmart == InitWalmart /\ [][NextWalmart]_vars

\* one call at a time
NextWalmartSeq ==
    \/ CallSearch(1) \/ FetchItem(1) \/ ReadBack(1) \/ WriteBack(1)
    \/ Restart

SpecWalmartSeq == InitWalmart /\ [][NextWalmartSeq]_vars

\* C27: once every concurrent call of search_walmart has returned, the file
\* holds an entry for each key a call returned for, and the entry it held
\* before.
C27_NoEntryLost ==
    (\A t \in Threads : wth[t].pc = "idle") =>
        /\ wfile["old"] = [price |-> R(1, 1), unit |-> "g"]
        /\ \A k \in WKeys : wfirst[k] # AbsentPrice => wfile[k] # AbsentPrice

\* C28: what search_walmart returned for a key first, the fallback of a
\* failed request included, is in the file and is what every later call for
\* the key returns, in this process and in later ones, and the API is asked
\* once per key at most.
C28_ResultIsSticky ==
    \A k \in WKeys :
        /\ wcalls[k] <= 1
        /\ wfirst[k] # AbsentPrice =>
              /\ wlast[k].val = wfirst[k]
              /\ wfile[k] = wfirst[k]

C28_Witness ==
    /\ wfirst["egg"] = ZeroPrice
    /\ wlast["egg"] = [val |-> ZeroPrice, from |-> "file"]
    /\ wcalls["egg"] = 1
    /\ wlru["milk"] = AbsentPrice /\ wfile["milk"] # AbsentPrice


(***************************************************************************)
(* The pages of streamlit_app.py.  A step is one run of the script in a    *)
(* session, or the recipe site changing between runs.                      *)
(***************************************************************************)
\* the recipe site: answering, answering the search but no recipe page, or
\* not answering at all
SiteStates == {"up", "pages_down", "down"}

\* run_once(q) with the site as it is: search_allrecipes raises when the
\* search page cannot be fetched, scrape_recipes skips a recipe page that
\* cannot be fetched, and the results are written as JSON
RunOnce(s) ==
    IF s = "down" THEN "RuntimeError"
    ELSE IF s = "pages_down" THEN "[]" ELSE "[recipes]"

\* the home page: the text input sets the query
TypeQuery ==
    /\ session_state.page = "home"
    /\ \E q \in Queries :
          /\ q # session_state.query
          /\ session_state' = [session_state EXCEPT !.query = q]
    /\ shown' = "home"
    /\ UNCHANGED <<files, site>>
    /\ UNCHANGED <<normVars, repeatVars, pipeVars, nutriVars, walVars>>

\* the home page: Search is clicked, _go_waiting_then_search
ClickSearch ==
    /\ session_state.page = "home"
    /\ IF Strip(session_state.query) = <<>>
       THEN /\ shown' = "warning"
            /\ UNCHANGED session_state
       ELSE /\ session_state' = [session_state EXCEPT !.page = "waiting",
                                    !.results_path = "None", !.results_data = "None"]
            /\ shown' = "spinner"
    /\ UNCHANGED <<files, site>>
    /\ UNCHANGED <<normVars, repeatVars, pipeVars, nutriVars, walVars>>

\* the waiting page: run_once, then the results are loaded; an exception of
\* run_once ends the run of the script where it is raised
RunWaiting ==
    /\ session_state.page = "waiting"
    /\ IF RunOnce(site) = "RuntimeError"
       THEN /\ shown' = "exception"
            /\ UNCHANGED <<session_state, files>>
       ELSE /\ files' = [files EXCEPT ![OutPath(session_state.query)] = RunOnce(site)]
            /\ session_state' = [session_state EXCEPT
                   !.results_path = OutPath(session_state.query),
                   !.results_data = RunOnce(site),
                   !.page = "results"]
            /\ shown' = "results"
    /\ UNCHANGED site
    /\ UNCHANGED <<normVars, repeatVars, pipeVars, nutriVars, walVars>>

\* the results page: Back is clicked
Back ==
    /\ session_state.page = "results"
    /\ session_state' = [session_state EXCEPT !.page = "home"]
    /\ shown' = "home"
    /\ UNCHANGED <<files, site>>
    /\ UNCHANGED <<normVars, repeatVars, pipeVars, nutriVars, walVars>>

\* the recipe site goes down or comes back
SiteChanges ==
    /\ \E s \in SiteStates : s # site /\ site' = s
    /\ UNCHANGED <<session_state, files, shown>>
    /\ UNCHANGED <<normVars, repeatVars, pipeVars, nutriVars, walVars>>

InitApp == Init

NextApp == TypeQuery \/ ClickSearch \/ RunWaiting \/ Back \/ SiteChanges

\* the script of a session on the waiting page is run; nothing makes the
\* site come back
SpecApp == InitApp /\ [][NextApp]_vars /\ WF_vars(RunWaiting)

\* C30: every visit of the waiting page is followed by the results page.
C30_WaitingReachesResults ==
    (session_state.page = "waiting") ~> (session_state.page = "results")

====
